---------------------------- MODULE Spec2Model ----------------------------
(***************************************************************************)
(* Guandan teaching aid: the rule engine (utils/guandanRules) as pure      *)
(* operators, and state machines that feed it card lists.                  *)
(*                                                                         *)
(* A card is a record [suit, rank, id, isWildcard]; id is the deck index   *)
(* of the copy (the store builds ids as suit-rank-deckIndex).  A           *)
(* PatternResult is a record [type, primaryValue, length, isValid]; a       *)
(* WildcardSuggestion is a record [suit, rank].                            *)
(***************************************************************************)
EXTENDS Integers, Sequences, FiniteSets

VARIABLES levelRank, cards, op, result, sorted, value,
          newPattern, oldPattern, beats, chain, options,
          players, cardPool, table, historyStack, redoStack, timers, pendingCards, steps

\* the arguments and the result of canBeat; chain holds a third result and
\* the comparisons of the two arguments with it
beatVars == <<newPattern, oldPattern, beats, chain>>

\* the store: the four hands, the pool of the setup panel, the table, the
\* undo and redo stacks; the table view's scheduled plays (setTimeout) and
\* the cards waiting in the wildcard popover; and the number of handlers
\* run since the store was constructed
storeVars ==
  <<players, cardPool, table, historyStack, redoStack, timers, pendingCards, steps>>

vars == <<levelRank, cards, op, result, sorted, value, beatVars, options, storeVars>>

(***************************************************************************)
(* Bounds of the model.                                                    *)
(***************************************************************************)
\* longest card list fed to the engine
MaxLen == 5

(***************************************************************************)
(* Card and rank model.                                                    *)
(***************************************************************************)
SUITS == <<"Spades", "Hearts", "Clubs", "Diamonds">>

RANKS == <<"2", "3", "4", "5", "6", "7", "8", "9", "10", "J", "Q", "K", "A">>

Suit == {SUITS[i] : i \in DOMAIN SUITS} \cup {"Joker"}

Rank == {RANKS[i] : i \in DOMAIN RANKS} \cup {"Small", "Big"}

\* the copies of one (suit, rank): two decks
DeckIndex == {1, 2}

SUIT_PRIORITY ==
  [s \in Suit |->
     CASE s = "Spades" -> 0
       [] s = "Hearts" -> 1
       [] s = "Clubs" -> 2
       [] s = "Diamonds" -> 3
       [] s = "Joker" -> -1]

BASE_RANK_VALUE ==
  [r \in Rank |->
     CASE r = "2" -> 2 [] r = "3" -> 3 [] r = "4" -> 4 [] r = "5" -> 5
       [] r = "6" -> 6 [] r = "7" -> 7 [] r = "8" -> 8 [] r = "9" -> 9
       [] r = "10" -> 10 [] r = "J" -> 11 [] r = "Q" -> 12 [] r = "K" -> 13
       [] r = "A" -> 14 [] r = "Small" -> 16 [] r = "Big" -> 17]

\* a mis-typed table: the level card keeps its natural value
getCardValueNoLevel(card, currentLevelRank) ==
  IF card.suit = "Joker"
    THEN (IF card.rank = "Big" THEN 17 ELSE 16)
    ELSE BASE_RANK_VALUE[card.rank]

getCardValue(card, currentLevelRank) ==
  IF card.suit = "Joker"
    THEN (IF card.rank = "Big" THEN 17 ELSE 16)
    ELSE IF card.rank = currentLevelRank
           THEN 15
           ELSE BASE_RANK_VALUE[card.rank]

rankToInt(rank) == IF rank \in DOMAIN BASE_RANK_VALUE THEN BASE_RANK_VALUE[rank] ELSE 0

(***************************************************************************)
(* Hand sorter: Array.prototype.sort is a stable sort by the comparator.   *)
(***************************************************************************)
\* the comparator without the test that the two flags differ
compareCardsNoGuard(a, b, currentLevelRank) ==
  IF a.isWildcard THEN -1 ELSE 1

\* the comparator with the values compared the wrong way round
compareCardsAscending(a, b, currentLevelRank) ==
  IF a.isWildcard # b.isWildcard
    THEN (IF a.isWildcard THEN -1 ELSE 1)
    ELSE LET va == getCardValue(a, currentLevelRank)
             vb == getCardValue(b, currentLevelRank)
         IN  IF va # vb
               THEN va - vb
               ELSE SUIT_PRIORITY[a.suit] - SUIT_PRIORITY[b.suit]

compareCards(a, b, currentLevelRank) ==
  IF a.isWildcard # b.isWildcard
    THEN (IF a.isWildcard THEN -1 ELSE 1)
    ELSE LET va == getCardValue(a, currentLevelRank)
             vb == getCardValue(b, currentLevelRank)
         IN  IF va # vb
               THEN vb - va
               ELSE SUIT_PRIORITY[a.suit] - SUIT_PRIORITY[b.suit]

\* x goes before the first element that the comparator puts after it
InsertSorted(acc, x, currentLevelRank) ==
  LET later == {j \in DOMAIN acc : compareCards(acc[j], x, currentLevelRank) > 0}
      k == IF later = {} THEN Len(acc) + 1
           ELSE CHOOSE j \in later : \A j2 \in later : j <= j2
  IN  [j \in 1..(Len(acc) + 1) |->
         IF j < k THEN acc[j] ELSE IF j = k THEN x ELSE acc[j - 1]]

RECURSIVE SortFrom(_, _, _, _)
SortFrom(cs, i, acc, currentLevelRank) ==
  IF i > Len(cs) THEN acc
  ELSE SortFrom(cs, i + 1, InsertSorted(acc, cs[i], currentLevelRank), currentLevelRank)

sortCards(cs, currentLevelRank) == SortFrom(cs, 1, <<>>, currentLevelRank)

(***************************************************************************)
(* Internal helpers of the classifier.                                     *)
(***************************************************************************)
IsWild(c) == c.isWildcard

IsNotWild(c) == ~c.isWildcard

splitWildcards(cs) ==
  [wilds |-> SelectSeq(cs, IsWild), nonWilds |-> SelectSeq(cs, IsNotWild)]

\* Map.set on a Map<number, Card[]>: a new key goes last, an old key keeps
\* its place.  An entry is [v, n]: the value and how many cards carry it.
MapPush(map, v) ==
  IF \E i \in DOMAIN map : map[i].v = v
    THEN [i \in DOMAIN map |->
            IF map[i].v = v THEN [v |-> v, n |-> map[i].n + 1] ELSE map[i]]
    ELSE Append(map, [v |-> v, n |-> 1])

RECURSIVE CountFrom(_, _, _, _)
CountFrom(cs, i, map, lvl) ==
  IF i > Len(cs) THEN map
  ELSE CountFrom(cs, i + 1, MapPush(map, getCardValue(cs[i], lvl)), lvl)

\* the entries in insertion order, as iterating the Map yields them
countByValue(cs, lvl) == CountFrom(cs, 1, <<>>, lvl)

\* map.get(v)?.length ?? 0
MapCount(map, v) ==
  IF \E i \in DOMAIN map : map[i].v = v
    THEN (CHOOSE e \in {map[i] : i \in DOMAIN map} : e.v = v).n
    ELSE 0

RECURSIVE SumOver(_, _)
SumOver(S, f) ==
  IF S = {} THEN 0
  ELSE LET x == CHOOSE y \in S : TRUE IN f[x] + SumOver(S \ {x}, f)

MinOf(S) == CHOOSE x \in S : \A y \in S : x <= y

FAIL == [ok |-> FALSE, highValue |-> 0]

\* the window scan without the A-as-1 window: lo starts at 2
checkStraightLikeNoAceLow(nonWilds, wildcardCount, requiredLen, lvl, requireSameFlush) ==
  LET suits == {nonWilds[i].suit : i \in DOMAIN nonWilds}
      Eligible(c) == getCardValue(c, lvl) <= 14
      eligible == SelectSeq(nonWilds, Eligible)
      uniqueVals == {rankToInt(eligible[i].rank) : i \in DOMAIN eligible}
      n == requiredLen
      gaps(lo) == Cardinality({sv \in lo..(lo + n - 1) : sv \notin uniqueVals})
      found == {lo \in 2..(14 - n + 1) : gaps(lo) <= wildcardCount}
  IN  IF requireSameFlush /\ Cardinality(suits) > 1 THEN FAIL
      ELSE IF Len(eligible) + wildcardCount < requiredLen THEN FAIL
      ELSE IF Len(eligible) > requiredLen THEN FAIL
      ELSE IF Cardinality(uniqueVals) # Len(eligible) THEN FAIL
      ELSE IF found = {} THEN FAIL
      ELSE [ok |-> TRUE, highValue |-> MinOf(found) + n - 1]

\* the window scan with the cards above 14 left among the eligible cards
checkStraightLikeWithLevel(nonWilds, wildcardCount, requiredLen, lvl, requireSameFlush) ==
  LET suits == {nonWilds[i].suit : i \in DOMAIN nonWilds}
      eligible == nonWilds
      uniqueVals == {rankToInt(eligible[i].rank) : i \in DOMAIN eligible}
      n == requiredLen
      gaps(lo) ==
        Cardinality({sv \in lo..(lo + n - 1) :
                       (IF lo = 1 /\ sv = 1 THEN 14 ELSE sv) \notin uniqueVals})
      found == {lo \in 1..(14 - n + 1) : gaps(lo) <= wildcardCount}
  IN  IF requireSameFlush /\ Cardinality(suits) > 1 THEN FAIL
      ELSE IF Len(eligible) + wildcardCount < requiredLen THEN FAIL
      ELSE IF Len(eligible) > requiredLen THEN FAIL
      ELSE IF Cardinality(uniqueVals) # Len(eligible) THEN FAIL
      ELSE IF found = {} THEN FAIL
      ELSE LET lo == MinOf(found)
           IN  [ok |-> TRUE, highValue |-> IF lo = 1 THEN 5 ELSE lo + n - 1]

\* the window scan that keeps the last window that fits, not the first
checkStraightLikeHighest(nonWilds, wildcardCount, requiredLen, lvl, requireSameFlush) ==
  LET suits == {nonWilds[i].suit : i \in DOMAIN nonWilds}
      Eligible(c) == getCardValue(c, lvl) <= 14
      eligible == SelectSeq(nonWilds, Eligible)
      uniqueVals == {rankToInt(eligible[i].rank) : i \in DOMAIN eligible}
      n == requiredLen
      gaps(lo) ==
        Cardinality({sv \in lo..(lo + n - 1) :
                       (IF lo = 1 /\ sv = 1 THEN 14 ELSE sv) \notin uniqueVals})
      found == {lo \in 1..(14 - n + 1) : gaps(lo) <= wildcardCount}
  IN  IF requireSameFlush /\ Cardinality(suits) > 1 THEN FAIL
      ELSE IF Len(eligible) + wildcardCount < requiredLen THEN FAIL
      ELSE IF Len(eligible) > requiredLen THEN FAIL
      ELSE IF Cardinality(uniqueVals) # Len(eligible) THEN FAIL
      ELSE IF found = {} THEN FAIL
      ELSE LET lo == CHOOSE x \in found : \A y \in found : x >= y
           IN  [ok |-> TRUE, highValue |-> IF lo = 1 THEN 5 ELSE lo + n - 1]

(***************************************************************************)
(* Straight / StraightFlush check with wildcards filling the gaps.         *)
(***************************************************************************)
checkStraightLike(nonWilds, wildcardCount, requiredLen, lvl, requireSameFlush) ==
  LET suits == {nonWilds[i].suit : i \in DOMAIN nonWilds}
      Eligible(c) == getCardValue(c, lvl) <= 14
      eligible == SelectSeq(nonWilds, Eligible)
      uniqueVals == {rankToInt(eligible[i].rank) : i \in DOMAIN eligible}
      n == requiredLen
      gaps(lo) ==
        Cardinality({sv \in lo..(lo + n - 1) :
                       (IF lo = 1 /\ sv = 1 THEN 14 ELSE sv) \notin uniqueVals})
      found == {lo \in 1..(14 - n + 1) : gaps(lo) <= wildcardCount}
  IN  IF requireSameFlush /\ Cardinality(suits) > 1 THEN FAIL
      ELSE IF Len(eligible) + wildcardCount < requiredLen THEN FAIL
      ELSE IF Len(eligible) > requiredLen THEN FAIL
      ELSE IF Cardinality(uniqueVals) # Len(eligible) THEN FAIL
      ELSE IF found = {} THEN FAIL
      ELSE LET lo == MinOf(found)
           IN  [ok |-> TRUE, highValue |-> IF lo = 1 THEN 5 ELSE lo + n - 1]

(***************************************************************************)
(* Tube (3 x 2) / Plate (2 x 3) check.                                     *)
(***************************************************************************)
checkConsecutiveGroups(nonWilds, wildcardCount, groupCount, groupSize, lvl) ==
  LET totalNeeded == groupCount * groupSize
      countMap == countByValue(nonWilds, lvl)
      needed(lo) ==
        SumOver(lo..(lo + groupCount - 1),
                [sv \in lo..(lo + groupCount - 1) |-> groupSize - MapCount(countMap, sv)])
      found == {lo \in 2..(14 - groupCount + 1) : needed(lo) <= wildcardCount}
  IN  IF Len(nonWilds) + wildcardCount # totalNeeded THEN FAIL
      ELSE IF \E i \in DOMAIN countMap : countMap[i].v > 14 THEN FAIL
      ELSE IF \E i \in DOMAIN countMap : countMap[i].n > groupSize THEN FAIL
      ELSE IF found = {} THEN FAIL
      ELSE [ok |-> TRUE, highValue |-> MinOf(found) + groupCount - 1]

(***************************************************************************)
(* Main classifier.                                                        *)
(***************************************************************************)
PlayTypeName ==
  {"Single", "Pair", "Triple", "TripleWithPair", "Straight", "StraightFlush",
   "Tube", "Plate", "Bomb", "KingBomb", "Pass", "Invalid"}

INVALID == [type |-> "Invalid", primaryValue |-> 0, length |-> 0, isValid |-> FALSE]

Pattern(t, pv, len) == [type |-> t, primaryValue |-> pv, length |-> len, isValid |-> TRUE]

\* the search without the test that the triple value has at most 3 cards
tryTripleWithPairNoUpper(nonWilds, wildcardCount, lvl) ==
  LET grouped == countByValue(nonWilds, lvl)
      PairOk(i, j, remainingWilds) ==
        LET otherCount ==
              SumOver(DOMAIN grouped \ {i, j}, [k \in DOMAIN grouped |-> grouped[k].n])
            pairNeed == 2 - grouped[j].n
        IN  otherCount = 0 /\ pairNeed >= 0 /\ pairNeed <= remainingWilds
      TripleOk(i) ==
        LET tripleNeed == 3 - grouped[i].n
            remainingWilds == wildcardCount - tripleNeed
        IN  /\ tripleNeed <= wildcardCount
            /\ \/ DOMAIN grouped \ {i} = {} /\ remainingWilds >= 2
               \/ \E j \in DOMAIN grouped \ {i} : PairOk(i, j, remainingWilds)
      found == {i \in DOMAIN grouped : TripleOk(i)}
  IN  IF \E i \in DOMAIN grouped : grouped[i].v >= 16 THEN INVALID
      ELSE IF found = {} THEN INVALID
      ELSE Pattern("TripleWithPair", grouped[MinOf(found)].v, 5)

tryTripleWithPair(nonWilds, wildcardCount, lvl) ==
  LET grouped == countByValue(nonWilds, lvl)
      \* vals[i] is grouped[i].v: the keys in insertion order
      PairOk(i, j, remainingWilds) ==
        LET otherCount ==
              SumOver(DOMAIN grouped \ {i, j}, [k \in DOMAIN grouped |-> grouped[k].n])
            pairNeed == 2 - grouped[j].n
        IN  otherCount = 0 /\ pairNeed >= 0 /\ pairNeed <= remainingWilds
      TripleOk(i) ==
        LET tripleNeed == 3 - grouped[i].n
            remainingWilds == wildcardCount - tripleNeed
        IN  /\ tripleNeed >= 0
            /\ tripleNeed <= wildcardCount
            /\ \/ DOMAIN grouped \ {i} = {} /\ remainingWilds >= 2
               \/ \E j \in DOMAIN grouped \ {i} : PairOk(i, j, remainingWilds)
      found == {i \in DOMAIN grouped : TripleOk(i)}
  IN  IF \E i \in DOMAIN grouped : grouped[i].v >= 16 THEN INVALID
      ELSE IF found = {} THEN INVALID
      ELSE Pattern("TripleWithPair", grouped[MinOf(found)].v, 5)

CountRank(cs, r) == Cardinality({i \in DOMAIN cs : cs[i].rank = r})

AllJokers(cs) == \A i \in DOMAIN cs : cs[i].suit = "Joker"

SomeJoker(cs) == \E i \in DOMAIN cs : cs[i].suit = "Joker"

\* the four jokers, without the test that there are exactly 4 cards
KingBombOfAnyLength(cs) ==
  IF CountRank(cs, "Big") = 2 /\ CountRank(cs, "Small") = 2
    THEN Pattern("KingBomb", 100, 4)
    ELSE INVALID

\* the KingBomb branch; INVALID stands for "not taken"
KingBombOf(cs) ==
  IF Len(cs) = 4 /\ CountRank(cs, "Big") = 2 /\ CountRank(cs, "Small") = 2
    THEN Pattern("KingBomb", 100, 4)
    ELSE INVALID

\* the Bomb branch without the test that no non-wildcard card is a Joker
BombOfWithJokers(cs, nonWilds, wc, lvl) ==
  LET valueMap == countByValue(nonWilds, lvl)
  IN  IF Len(valueMap) = 1 /\ valueMap[1].n + wc = Len(cs)
        THEN Pattern("Bomb", valueMap[1].v, Len(cs))
        ELSE INVALID

\* the Bomb branch (entered when n >= 4); INVALID stands for "not taken"
BombOf(cs, nonWilds, wc, lvl) ==
  LET valueMap == countByValue(nonWilds, lvl)
  IN  IF Len(valueMap) <= 1 /\ ~SomeJoker(nonWilds)
        THEN IF Len(valueMap) = 0 THEN INVALID
             ELSE IF valueMap[1].n + wc = Len(cs)
                    THEN Pattern("Bomb", valueMap[1].v, Len(cs))
                    ELSE INVALID
        ELSE INVALID

\* the Pair branch without the test that the two values are equal
PairOfNoValueTest(cs, nonWilds, wc, lvl) ==
  IF AllJokers(cs) THEN INVALID
  ELSE IF wc = 1 /\ Len(nonWilds) = 1 /\ nonWilds[1].suit # "Joker"
    THEN Pattern("Pair", getCardValue(nonWilds[1], lvl), 2)
  ELSE IF wc = 0 /\ cs[1].suit # "Joker"
    THEN Pattern("Pair", getCardValue(cs[1], lvl), 2)
  ELSE INVALID

\* the Pair branch (n = 2)
PairOf(cs, nonWilds, wc, lvl) ==
  IF AllJokers(cs) THEN INVALID
  ELSE IF wc = 1 /\ Len(nonWilds) = 1 /\ nonWilds[1].suit # "Joker"
    THEN Pattern("Pair", getCardValue(nonWilds[1], lvl), 2)
  ELSE IF wc = 0 /\ getCardValue(cs[1], lvl) = getCardValue(cs[2], lvl)
               /\ cs[1].suit # "Joker"
    THEN Pattern("Pair", getCardValue(cs[1], lvl), 2)
  ELSE INVALID

TripleOf(cs, nonWilds, wc, lvl) ==
  LET vals == {getCardValue(nonWilds[i], lvl) : i \in DOMAIN nonWilds}
  IN  IF SomeJoker(cs) THEN INVALID
      ELSE IF Cardinality(vals) = 1 /\ Len(nonWilds) + wc = 3
        THEN Pattern("Triple", CHOOSE v \in vals : TRUE, 3)
      ELSE IF wc > 0 /\ Cardinality(vals) = 1
        THEN Pattern("Triple", CHOOSE v \in vals : TRUE, 3)
      ELSE INVALID

FiveOf(cs, nonWilds, wc, lvl) ==
  LET s == checkStraightLike(nonWilds, wc, 5, lvl, FALSE)
      f == checkStraightLike(nonWilds, wc, 5, lvl, TRUE)
  IN  IF s.ok THEN Pattern("Straight", s.highValue, 5)
      ELSE IF f.ok THEN Pattern("StraightFlush", f.highValue, 5)
      ELSE IF ~(\E i \in DOMAIN cs : cs[i].suit = "Joker" /\ ~cs[i].isWildcard)
        THEN tryTripleWithPair(nonWilds, wc, lvl)
      ELSE INVALID

\* the 6-card branch with Tube tried before Plate
SixOfTubeFirst(cs, nonWilds, wc, lvl) ==
  LET plateRes == checkConsecutiveGroups(nonWilds, wc, 2, 3, lvl)
      tubeRes == checkConsecutiveGroups(nonWilds, wc, 3, 2, lvl)
      vals6 == {getCardValue(nonWilds[i], lvl) : i \in DOMAIN nonWilds}
  IN  IF tubeRes.ok THEN Pattern("Tube", tubeRes.highValue, 6)
      ELSE IF plateRes.ok THEN Pattern("Plate", plateRes.highValue, 6)
      ELSE IF Cardinality(vals6) = 1 /\ ~SomeJoker(nonWilds)
        THEN Pattern("Bomb", CHOOSE v \in vals6 : TRUE, 6)
      ELSE INVALID

SixOf(cs, nonWilds, wc, lvl) ==
  LET plateRes == checkConsecutiveGroups(nonWilds, wc, 2, 3, lvl)
      tubeRes == checkConsecutiveGroups(nonWilds, wc, 3, 2, lvl)
      vals6 == {getCardValue(nonWilds[i], lvl) : i \in DOMAIN nonWilds}
  IN  IF plateRes.ok THEN Pattern("Plate", plateRes.highValue, 6)
      ELSE IF tubeRes.ok THEN Pattern("Tube", tubeRes.highValue, 6)
      ELSE IF Cardinality(vals6) = 1 /\ ~SomeJoker(nonWilds)
        THEN Pattern("Bomb", CHOOSE v \in vals6 : TRUE, 6)
      ELSE INVALID

LongOf(cs, nonWilds, wc, lvl) ==
  LET ls == checkStraightLike(nonWilds, wc, Len(cs), lvl, FALSE)
  IN  IF ls.ok THEN Pattern("Straight", ls.highValue, Len(cs)) ELSE INVALID

identifyPattern(cs, currentLevelRank) ==
  LET n == Len(cs)
      sp == splitWildcards(cs)
      nonWilds == sp.nonWilds
      wc == Len(sp.wilds)
      king == KingBombOf(cs)
      bomb == IF n >= 4 THEN BombOf(cs, nonWilds, wc, currentLevelRank) ELSE INVALID
  IN  IF n = 0 THEN INVALID
      ELSE IF king.isValid THEN king
      ELSE IF bomb.isValid THEN bomb
      ELSE IF n = 1 THEN Pattern("Single", getCardValue(cs[1], currentLevelRank), 1)
      ELSE IF AllJokers(nonWilds) /\ wc = 0 /\ AllJokers(cs) THEN INVALID
      ELSE IF n = 2 THEN PairOf(cs, nonWilds, wc, currentLevelRank)
      ELSE IF n = 3 THEN TripleOf(cs, nonWilds, wc, currentLevelRank)
      ELSE IF n = 5 THEN FiveOf(cs, nonWilds, wc, currentLevelRank)
      ELSE IF n = 6 THEN SixOf(cs, nonWilds, wc, currentLevelRank)
      ELSE IF n >= 7 THEN LongOf(cs, nonWilds, wc, currentLevelRank)
      ELSE INVALID

(***************************************************************************)
(* Comparison: bomb rank and canBeat.                                      *)
(***************************************************************************)
\* the table with StraightFlush placed below the 5-card Bomb
bombRankFlushLow(pattern) ==
  IF pattern.type = "KingBomb" THEN 7
  ELSE IF pattern.type = "StraightFlush" THEN 2
  ELSE IF pattern.type = "Bomb"
    THEN IF pattern.length >= 8 THEN 6
         ELSE IF pattern.length = 7 THEN 5
         ELSE IF pattern.length = 6 THEN 4
         ELSE IF pattern.length = 5 THEN 3
         ELSE 1
  ELSE 0

\* the table with the KingBomb placed with the 7-card Bomb
bombRankKingLow(pattern) ==
  IF pattern.type = "KingBomb" THEN 5
  ELSE IF pattern.type = "StraightFlush" THEN 3
  ELSE IF pattern.type = "Bomb"
    THEN IF pattern.length >= 8 THEN 6
         ELSE IF pattern.length = 7 THEN 5
         ELSE IF pattern.length = 6 THEN 4
         ELSE IF pattern.length = 5 THEN 2
         ELSE 1
  ELSE 0

bombRank(pattern) ==
  IF pattern.type = "KingBomb" THEN 7
  ELSE IF pattern.type = "StraightFlush" THEN 3
  ELSE IF pattern.type = "Bomb"
    THEN IF pattern.length >= 8 THEN 6
         ELSE IF pattern.length = 7 THEN 5
         ELSE IF pattern.length = 6 THEN 4
         ELSE IF pattern.length = 5 THEN 2
         ELSE 1
  ELSE 0

\* the steps of canBeat after the tests of isValid and of Pass
canBeatRanked(newP, oldP) ==
  LET newBR == bombRank(newP)
      oldBR == bombRank(oldP)
  IN  IF newBR > 0 /\ oldBR > 0
        THEN IF newBR # oldBR THEN newBR > oldBR
             ELSE IF newP.length # oldP.length THEN newP.length > oldP.length
             ELSE newP.primaryValue > oldP.primaryValue
      ELSE IF newBR > 0 /\ oldBR = 0 THEN TRUE
      ELSE IF newBR = 0 /\ oldBR > 0 THEN FALSE
      ELSE IF newP.type # oldP.type THEN FALSE
      ELSE IF newP.length # oldP.length THEN FALSE
      ELSE newP.primaryValue > oldP.primaryValue

\* canBeat with the test of isValid after the test of Pass
canBeatPassFirst(newP, oldP) ==
  IF oldP.type = "Pass" THEN TRUE
  ELSE IF ~newP.isValid \/ ~oldP.isValid THEN FALSE
  ELSE canBeatRanked(newP, oldP)

\* canBeat without the test of Pass
canBeatNoPass(newP, oldP) ==
  IF ~newP.isValid \/ ~oldP.isValid THEN FALSE
  ELSE canBeatRanked(newP, oldP)

\* canBeat where a bomb meets a non-bomb as two non-bombs meet
canBeatBombAsPlain(newP, oldP) ==
  LET newBR == bombRank(newP)
      oldBR == bombRank(oldP)
  IN  IF ~newP.isValid \/ ~oldP.isValid THEN FALSE
      ELSE IF oldP.type = "Pass" THEN TRUE
      ELSE IF newBR > 0 /\ oldBR > 0 THEN canBeatRanked(newP, oldP)
      ELSE IF newP.type # oldP.type THEN FALSE
      ELSE IF newP.length # oldP.length THEN FALSE
      ELSE newP.primaryValue > oldP.primaryValue

\* canBeat without the test that two non-bombs have the same length
canBeatAnyLength(newP, oldP) ==
  LET newBR == bombRank(newP)
      oldBR == bombRank(oldP)
  IN  IF ~newP.isValid \/ ~oldP.isValid THEN FALSE
      ELSE IF oldP.type = "Pass" THEN TRUE
      ELSE IF newBR > 0 \/ oldBR > 0 THEN canBeatRanked(newP, oldP)
      ELSE IF newP.type # oldP.type THEN FALSE
      ELSE newP.primaryValue > oldP.primaryValue

\* canBeat where a result equal in type, length and value also wins
canBeatTies(newP, oldP) ==
  IF ~newP.isValid \/ ~oldP.isValid THEN FALSE
  ELSE IF oldP.type = "Pass" THEN TRUE
  ELSE IF newP = oldP THEN TRUE
  ELSE canBeatRanked(newP, oldP)

canBeat(newP, oldP) ==
  IF ~newP.isValid \/ ~oldP.isValid THEN FALSE
  ELSE IF oldP.type = "Pass" THEN TRUE
  ELSE canBeatRanked(newP, oldP)

(***************************************************************************)
(* Wildcard substitutions: enumerateWildcardOptions.                       *)
(***************************************************************************)
\* the (suit, rank) of the loops, suit by suit and rank by rank
Candidates ==
  [i \in 1..(Len(SUITS) * Len(RANKS)) |->
     [suit |-> SUITS[((i - 1) \div Len(RANKS)) + 1],
      rank |-> RANKS[((i - 1) % Len(RANKS)) + 1]]]

\* the list handed to identifyPattern for one candidate: a wildcard gets the
\* field actingAs and the flag isWildcard false, its suit and rank stay
testCards(cs, suit, rank) ==
  [i \in DOMAIN cs |->
     IF cs[i].isWildcard
       THEN [suit |-> cs[i].suit, rank |-> cs[i].rank, id |-> cs[i].id,
             isWildcard |-> FALSE, actingAs |-> [suit |-> suit, rank |-> rank]]
       ELSE cs[i]]

\* the filter on seen: an entry stays when no earlier entry has its suit and
\* rank
RECURSIVE DedupeFrom(_, _, _)
DedupeFrom(suggestions, i, acc) ==
  IF i > Len(suggestions) THEN acc
  ELSE DedupeFrom(suggestions, i + 1,
                  IF \E j \in DOMAIN acc : acc[j] = suggestions[i]
                    THEN acc
                    ELSE Append(acc, suggestions[i]))

enumerateWildcardOptions(cs, currentLevelRank) ==
  LET wildcards == SelectSeq(cs, IsWild)
      nonWildValues == {[suit |-> cs[i].suit, rank |-> cs[i].rank] :
                          i \in {j \in DOMAIN cs : ~cs[j].isWildcard}}
      Kept(k) ==
        /\ ~(k.rank = currentLevelRank /\ k.suit = "Hearts")
        /\ k \notin nonWildValues
        /\ LET res == identifyPattern(testCards(cs, k.suit, k.rank), currentLevelRank)
           IN  res.isValid /\ res.type # "Invalid"
      suggestions == SelectSeq(Candidates, Kept)
  IN  IF Len(wildcards) = 0 THEN <<>>
      ELSE DedupeFrom(suggestions, 1, <<>>)

(***************************************************************************)
(* Inputs: card kinds, and the card the store makes of a kind.             *)
(***************************************************************************)
Kind(s, r) == [suit |-> s, rank |-> r]

\* the 54 kinds of generateInitialDeck
AllKinds ==
  {Kind(SUITS[i], RANKS[j]) : i \in DOMAIN SUITS, j \in DOMAIN RANKS}
    \cup {Kind("Joker", "Small"), Kind("Joker", "Big")}

ALL_LEVEL_RANKS == {RANKS[j] : j \in DOMAIN RANKS}

\* the wildcard flag as the store sets it when a card enters a hand
isWild(k, lvl) == k.rank = lvl /\ k.suit = "Hearts"

MakeCard(k, deckIndex, lvl) ==
  [suit |-> k.suit, rank |-> k.rank, id |-> deckIndex, isWildcard |-> isWild(k, lvl)]

Copies(cs, k) == Cardinality({i \in DOMAIN cs : cs[i].suit = k.suit /\ cs[i].rank = k.rank})

NoResult == [type |-> "None", primaryValue |-> 0, length |-> 0, isValid |-> FALSE]

NoChain == [third |-> NoResult, oldBeats |-> FALSE, newBeats |-> FALSE]

\* the turn order, and the order in which the store walks the hands
PLAYER_ORDER == <<"SOUTH", "EAST", "NORTH", "WEST">>

ALL_POSITIONS == <<"EAST", "SOUTH", "WEST", "NORTH">>

PlayerPosition == {PLAYER_ORDER[i] : i \in DOMAIN PLAYER_ORDER}

INITIAL_TABLE == [currentLevelRank |-> "2", currentPlayer |-> "SOUTH", actionHistory |-> <<>>]

buildInitialPlayers == [pos \in PlayerPosition |-> <<>>]

\* the store as constructed, with no pool: the state of the store while the
\* engine is called on its own
NoStore ==
  /\ players = buildInitialPlayers
  /\ cardPool = <<>>
  /\ table = INITIAL_TABLE
  /\ historyStack = <<>>
  /\ redoStack = <<>>
  /\ timers = <<>>
  /\ pendingCards = <<>>
  /\ steps = 0

\* the kinds that ordered lists are drawn from
OrderKinds ==
  {Kind("Spades", "7"), Kind("Hearts", "7"), Kind("Spades", "8"), Kind("Clubs", "8"),
   Kind("Hearts", "2"), Kind("Diamonds", "2"), Kind("Joker", "Small"), Kind("Joker", "Big")}

OrderLevels == {"2", "7"}

(***************************************************************************)
(* The calls.  op names the last call; a call's output variable holds its  *)
(* result and the other output variables are cleared.                      *)
(***************************************************************************)
TypeOK ==
  /\ levelRank \in ALL_LEVEL_RANKS
  /\ cards \in Seq([suit : Suit, rank : Rank, id : DeckIndex, isWildcard : BOOLEAN])
  /\ op \in {"select", "identify", "shuffle", "sort", "resort", "value",
             "pick", "beat", "rank", "chain", "enumerate", "init", "setLevel",
             "assignCardToPlayer", "returnCardFromPlayer", "clearPlayerHand",
             "clearAllHands", "randomDeal", "playCards", "passAction", "saveSnapshot",
             "undo", "redo", "handlePlayCards", "executePlay", "handleWildcardSelect",
             "handleWildcardCancel", "handlePass"}
  /\ beats \in BOOLEAN

InitWith(L) ==
  /\ levelRank \in L
  /\ cards = <<>>
  /\ op = "select"
  /\ result = NoResult
  /\ sorted = <<>>
  /\ value = 0
  /\ newPattern = NoResult
  /\ oldPattern = NoResult
  /\ beats = FALSE
  /\ chain = NoChain
  /\ options = <<>>
  /\ NoStore

\* copy d of kind k is added to the list (a list holds a copy once)
Select(k, d, limit) ==
  /\ Len(cards) < limit
  /\ d \in DeckIndex
  /\ \A i \in DOMAIN cards : ~(cards[i].suit = k.suit /\ cards[i].rank = k.rank /\ cards[i].id = d)
  /\ cards' = Append(cards, MakeCard(k, d, levelRank))
  /\ op' = "select"
  /\ result' = NoResult
  /\ sorted' = <<>>
  /\ value' = 0
  /\ UNCHANGED <<levelRank, beatVars, options, storeVars>>

Identify ==
  /\ op = "select"
  /\ Len(cards) >= 1
  /\ result' = identifyPattern(cards, levelRank)
  /\ op' = "identify"
  /\ sorted' = <<>>
  /\ value' = 0
  /\ UNCHANGED <<levelRank, cards, beatVars, options, storeVars>>

Swap(cs, i) ==
  [j \in DOMAIN cs |-> IF j = i THEN cs[i + 1] ELSE IF j = i + 1 THEN cs[i] ELSE cs[j]]

\* the same cards handed over in another order, and classified again
Shuffle(i) ==
  /\ op \in {"identify", "shuffle"}
  /\ i \in 1..(Len(cards) - 1)
  /\ cards' = Swap(cards, i)
  /\ result' = identifyPattern(cards', levelRank)
  /\ op' = "shuffle"
  /\ sorted' = <<>>
  /\ value' = 0
  /\ UNCHANGED <<levelRank, beatVars, options, storeVars>>

Sort ==
  /\ op = "select"
  /\ sorted' = sortCards(cards, levelRank)
  /\ op' = "sort"
  /\ result' = NoResult
  /\ value' = 0
  /\ UNCHANGED <<levelRank, cards, beatVars, options, storeVars>>

\* the sorted list is sorted once more
SortAgain ==
  /\ op = "sort"
  /\ cards' = sorted
  /\ sorted' = sortCards(sorted, levelRank)
  /\ op' = "resort"
  /\ result' = NoResult
  /\ value' = 0
  /\ UNCHANGED <<levelRank, beatVars, options, storeVars>>

Value ==
  /\ op = "select"
  /\ Len(cards) >= 1
  /\ value' = getCardValue(cards[Len(cards)], levelRank)
  /\ op' = "value"
  /\ result' = NoResult
  /\ sorted' = <<>>
  /\ UNCHANGED <<levelRank, cards, beatVars, options, storeVars>>

\* the kinds in a fixed order: hands are dealt in this order
KindIndex(k) ==
  IF k.suit = "Joker" THEN (IF k.rank = "Small" THEN 100 ELSE 101)
  ELSE 4 * BASE_RANK_VALUE[k.rank] + SUIT_PRIORITY[k.suit]

\* a card of kind k is dealt: as Select, with the kinds in ascending order
\* and the copies of a kind in the order of their deck index
Deal(k, limit) ==
  /\ IF Len(cards) = 0 THEN TRUE ELSE KindIndex(k) >= KindIndex(cards[Len(cards)])
  /\ Select(k, Copies(cards, k) + 1, limit)

(***************************************************************************)
(* Spec: hands of up to MaxLen cards dealt from DealKinds plus the         *)
(* wildcard of the level, at every level rank, and classified.             *)
(***************************************************************************)
DealKinds ==
  {Kind("Spades", "A"), Kind("Hearts", "2"), Kind("Clubs", "3"), Kind("Diamonds", "4"),
   Kind("Spades", "5"), Kind("Spades", "6"), Kind("Spades", "7"), Kind("Spades", "8"),
   Kind("Hearts", "8"), Kind("Spades", "9"), Kind("Joker", "Small"), Kind("Joker", "Big")}

Init == InitWith(ALL_LEVEL_RANKS)

Next ==
  \/ \E k \in DealKinds \cup {Kind("Hearts", levelRank)} : Deal(k, MaxLen)
  \/ Identify

Spec == Init /\ [][Next]_vars

(***************************************************************************)
(* SpecOrder: card lists of up to MaxLen cards from OrderKinds in every    *)
(* order, classified, reordered and classified again.                      *)
(***************************************************************************)
InitOrder == InitWith(OrderLevels)

NextOrder ==
  \/ \E k \in OrderKinds : op = "select" /\ Select(k, Copies(cards, k) + 1, MaxLen)
  \/ Identify
  \/ \E i \in 1..MaxLen : Shuffle(i)

SpecOrder == InitOrder /\ [][NextOrder]_vars

(***************************************************************************)
(* SpecSort: card lists of up to MaxSortLen cards from SortKinds, either   *)
(* copy, in every order, sorted, and the result sorted again.              *)
(***************************************************************************)
MaxSortLen == 4

SortKinds ==
  {Kind("Spades", "2"), Kind("Hearts", "2"), Kind("Hearts", "8"), Kind("Clubs", "8"),
   Kind("Diamonds", "8"), Kind("Joker", "Small"), Kind("Joker", "Big")}

SortLevels == {"2", "8"}

InitSort == InitWith(SortLevels)

NextSort ==
  \/ \E k \in SortKinds, d \in DeckIndex : op = "select" /\ Select(k, d, MaxSortLen)
  \/ Sort
  \/ SortAgain

SpecSort == InitSort /\ [][NextSort]_vars

(***************************************************************************)
(* SpecPair: one or two cards of any of the 54 kinds, in both orders, at   *)
(* every level rank.                                                       *)
(***************************************************************************)
NextPair ==
  \/ \E k \in AllKinds : Select(k, Copies(cards, k) + 1, 2)
  \/ Identify
  \/ Value

SpecPair == Init /\ [][NextPair]_vars

(***************************************************************************)
(* SpecBeat: canBeat and bombRank on every two PatternResults of any type, *)
(* a length up to MaxPatLen, a primaryValue of PatternValues and either    *)
(* isValid; the comparison is also made with the arguments exchanged.      *)
(***************************************************************************)
MaxPatLen == 9

PatternValues == {10, 14, 100}

Patterns ==
  [type : PlayTypeName, primaryValue : PatternValues, length : 1..MaxPatLen,
   isValid : BOOLEAN]

InitBeat ==
  /\ levelRank = "2"
  /\ cards = <<>>
  /\ op = "pick"
  /\ result = NoResult
  /\ sorted = <<>>
  /\ value = 0
  /\ newPattern \in Patterns
  /\ oldPattern \in Patterns
  /\ beats = FALSE
  /\ chain = NoChain
  /\ options = <<>>
  /\ NoStore

Beat ==
  /\ op = "pick"
  /\ beats' = canBeat(newPattern, oldPattern)
  /\ op' = "beat"
  /\ UNCHANGED <<levelRank, cards, result, sorted, value, newPattern, oldPattern, chain,
                 options, storeVars>>

\* the two results change places and are compared again
BeatBack ==
  /\ op = "beat"
  /\ newPattern' = oldPattern
  /\ oldPattern' = newPattern
  /\ beats' = canBeat(newPattern', oldPattern')
  /\ op' = "beat"
  /\ UNCHANGED <<levelRank, cards, result, sorted, value, chain, options, storeVars>>

\* the bomb rank of the candidate
BombRank ==
  /\ op = "pick"
  /\ value' = bombRank(newPattern)
  /\ op' = "rank"
  /\ UNCHANGED <<levelRank, cards, result, sorted, beatVars, options, storeVars>>

NextBeat ==
  \/ Beat
  \/ BeatBack
  \/ BombRank

SpecBeat == InitBeat /\ [][NextBeat]_vars

(***************************************************************************)
(* SpecWild: hands of up to MaxLen cards dealt from WildKinds at the       *)
(* levels 2 and 7, and the substitutions listed for them.                  *)
(***************************************************************************)
WildKinds ==
  {Kind("Spades", "2"), Kind("Hearts", "2"), Kind("Clubs", "2"), Kind("Diamonds", "2"),
   Kind("Spades", "7"), Kind("Hearts", "7"), Kind("Clubs", "7"), Kind("Spades", "8")}

WildLevels == {"2", "7"}

InitWild == InitWith(WildLevels)

Enumerate ==
  /\ op = "select"
  /\ Len(cards) >= 1
  /\ options' = enumerateWildcardOptions(cards, levelRank)
  /\ op' = "enumerate"
  /\ result' = NoResult
  /\ sorted' = <<>>
  /\ value' = 0
  /\ UNCHANGED <<levelRank, cards, beatVars, storeVars>>

NextWild ==
  \/ \E k \in WildKinds : Deal(k, MaxLen)
  \/ Enumerate

SpecWild == InitWild /\ [][NextWild]_vars

(***************************************************************************)
(* SpecRun: hands of up to MaxRunLen cards dealt from RunKinds, the cards  *)
(* of runs and of groups of consecutive values, plus the wildcard of the   *)
(* level, at levels where some of them are level cards (8, 9) and where    *)
(* none is (K), and classified.                                            *)
(***************************************************************************)
MaxRunLen == 6

RunKinds ==
  {Kind("Spades", "7"), Kind("Clubs", "7"), Kind("Spades", "8"), Kind("Hearts", "8"),
   Kind("Clubs", "8"), Kind("Spades", "9"), Kind("Clubs", "9"), Kind("Spades", "10"),
   Kind("Spades", "J"), Kind("Joker", "Small"),
   Kind("Spades", "A"), Kind("Spades", "2"), Kind("Spades", "3")}

RunLevels == {"8", "9", "K"}

InitRun == InitWith(RunLevels)

NextRun ==
  \/ \E k \in RunKinds \cup {Kind("Hearts", levelRank)} : Deal(k, MaxRunLen)
  \/ Identify

SpecRun == InitRun /\ [][NextRun]_vars

(***************************************************************************)
(* SpecLong: hands of up to MaxLongLen cards dealt from LongKinds, the     *)
(* cards of the runs from A-2-3 up to 7 and from 10 up to A, plus the      *)
(* wildcard of the level, at the levels 2 and 9, and classified.           *)
(***************************************************************************)
MaxLongLen == 7

LongKinds ==
  {Kind("Spades", "A"), Kind("Hearts", "2"), Kind("Clubs", "3"), Kind("Diamonds", "4"),
   Kind("Spades", "5"), Kind("Spades", "6"), Kind("Spades", "7"), Kind("Spades", "10"),
   Kind("Spades", "J"), Kind("Spades", "Q"), Kind("Spades", "K")}

LongLevels == {"2", "9"}

InitLong == InitWith(LongLevels)

NextLong ==
  \/ \E k \in LongKinds \cup {Kind("Hearts", levelRank)} : Deal(k, MaxLongLen)
  \/ Identify

SpecLong == InitLong /\ [][NextLong]_vars

(***************************************************************************)
(* SpecTriple: card lists of up to MaxTripleLen cards from TripleKinds at  *)
(* level 2, in every order, classified, reordered and classified again.    *)
(***************************************************************************)
MaxTripleLen == 5

TripleKinds ==
  {Kind("Spades", "7"), Kind("Hearts", "7"), Kind("Spades", "8"), Kind("Clubs", "8"),
   Kind("Hearts", "2"), Kind("Diamonds", "2"), Kind("Joker", "Small")}

InitTriple == InitWith({"2"})

NextTriple ==
  \/ \E k \in TripleKinds : op = "select" /\ Select(k, Copies(cards, k) + 1, MaxTripleLen)
  \/ Identify
  \/ \E i \in 1..MaxTripleLen : Shuffle(i)

SpecTriple == InitTriple /\ [][NextTriple]_vars

(***************************************************************************)
(* SpecChain: canBeat on three valid results that are not Pass: the        *)
(* candidate against the incumbent, the arguments exchanged, and both      *)
(* against a third result.  Lengths go from 4 to MaxChainLen.              *)
(***************************************************************************)
MaxChainLen == 8

ChainTypes == {"Single", "Pair", "Straight", "Bomb", "StraightFlush", "KingBomb"}

ChainPatterns ==
  [type : ChainTypes, primaryValue : {10, 14}, length : 4..MaxChainLen, isValid : {TRUE}]

InitChain ==
  /\ levelRank = "2"
  /\ cards = <<>>
  /\ op = "pick"
  /\ result = NoResult
  /\ sorted = <<>>
  /\ value = 0
  /\ newPattern \in ChainPatterns
  /\ oldPattern \in ChainPatterns
  /\ beats = FALSE
  /\ chain = NoChain
  /\ options = <<>>
  /\ NoStore

\* after canBeat(newPattern, oldPattern): both are compared with a third
Third(p) ==
  /\ op = "beat"
  /\ chain' = [third |-> p, oldBeats |-> canBeat(oldPattern, p),
               newBeats |-> canBeat(newPattern, p)]
  /\ op' = "chain"
  /\ UNCHANGED <<levelRank, cards, result, sorted, value, newPattern, oldPattern, beats,
                 options, storeVars>>

NextChain ==
  \/ Beat
  \/ BeatBack
  \/ \E p \in ChainPatterns : Third(p)

SpecChain == InitChain /\ [][NextChain]_vars

(***************************************************************************)
(* The store (store/useGuandanStore).  A hand is the list handCards of a   *)
(* player; the pool counts, for each kind of the deck, the copies the      *)
(* setup panel can still hand out.  The deck of a model is the domain of   *)
(* the pool, two copies of each kind.  A card's id is                      *)
(* suit-rank-deckIndex: two cards                                          *)
(* have the same id when suit, rank and deck index agree.  An action of    *)
(* the history is [playerId, playedCards, playType, isRuleViolation]; a    *)
(* snapshot is [playersState, tableState].                                 *)
(***************************************************************************)
\* longest sequence of setup and store actions
MaxSteps == 5

cardPoolKey(suit, rank) == Kind(suit, rank)

buildInitialCardPool(kinds) == [k \in kinds |-> 2]

cardId(c) == <<c.suit, c.rank, c.id>>

Min2(n) == IF n > 2 THEN 2 ELSE n

nextPlayer(current) ==
  LET idx == CHOOSE i \in DOMAIN PLAYER_ORDER : PLAYER_ORDER[i] = current
  IN PLAYER_ORDER[(idx % 4) + 1]

sortAllHands(ps, lvl) == [pos \in PlayerPosition |-> sortCards(ps[pos], lvl)]

\* the cards of one kind over the four hands
globalCount(ps, k) ==
  Copies(ps["EAST"], k) + Copies(ps["SOUTH"], k) + Copies(ps["WEST"], k)
    + Copies(ps["NORTH"], k)

\* a mis-typed recount: the pool is refilled whatever the hands hold
recalcCardPoolFull(ps) == [k \in DOMAIN cardPool |-> 2]

recalcCardPoolFromHands(ps) ==
  [k \in DOMAIN cardPool |->
     IF globalCount(ps, k) >= 2 THEN 0 ELSE 2 - globalCount(ps, k)]

\* the pool after the cards of cs went back to it one by one
poolAfterReturn(pool, cs) ==
  [k \in DOMAIN pool |-> Min2(pool[k] + Copies(cs, k))]

RemoveAt(cs, idx) == [j \in 1..(Len(cs) - 1) |-> IF j < idx THEN cs[j] ELSE cs[j + 1]]

\* the cards of cs whose id is in ids, and those whose id is not
WithIds(cs, ids) == LET In(c) == cardId(c) \in ids IN SelectSeq(cs, In)

WithoutIds(cs, ids) == LET Out(c) == cardId(c) \notin ids IN SelectSeq(cs, Out)

IdsOf(cs) == {cardId(cs[i]) : i \in DOMAIN cs}

snapshotOf(ps, tb) == [playersState |-> ps, tableState |-> tb]

\* the variables of the engine's callers, untouched by the store
engineVars == <<result, sorted, value, beatVars, options>>

InitStore(kinds) ==
  /\ players = buildInitialPlayers
  /\ cardPool = buildInitialCardPool(kinds)
  /\ table = INITIAL_TABLE
  /\ historyStack = <<>>
  /\ redoStack = <<>>
  /\ timers = <<>>
  /\ pendingCards = <<>>
  /\ steps = 0
  /\ levelRank = INITIAL_TABLE.currentLevelRank
  /\ cards = <<>>
  /\ op = "init"
  /\ result = NoResult
  /\ sorted = <<>>
  /\ value = 0
  /\ newPattern = NoResult
  /\ oldPattern = NoResult
  /\ beats = FALSE
  /\ chain = NoChain
  /\ options = <<>>

\* a mis-typed relabelling: every card of the level rank is flagged
relabelAnySuit(card, rank) ==
  IF card.suit = "Joker" THEN card
  ELSE [card EXCEPT !.isWildcard = (card.rank = rank)]

relabel(card, rank) ==
  IF card.suit = "Joker" THEN card
  ELSE IF card.rank = rank
         THEN [card EXCEPT !.isWildcard = (card.suit = "Hearts")]
         ELSE [card EXCEPT !.isWildcard = FALSE]

setLevel(rank) ==
  /\ table' = [table EXCEPT !.currentLevelRank = rank]
  /\ players' =
       sortAllHands(
         [pos \in PlayerPosition |->
            [i \in DOMAIN players[pos] |-> relabel(players[pos][i], rank)]],
         rank)
  /\ levelRank' = rank
  /\ op' = "setLevel"
  /\ UNCHANGED <<cards, engineVars, cardPool, historyStack, redoStack, timers, pendingCards>>

assignCardToPlayer(suit, rank, targetPlayer) ==
  LET key == cardPoolKey(suit, rank)
      deckIndex == globalCount(players, key) + 1
      newCard == MakeCard(key, deckIndex, table.currentLevelRank)
  IN /\ cardPool[key] > 0
     /\ cardPool' = [cardPool EXCEPT ![key] = @ - 1]
     /\ players' =
          [players EXCEPT ![targetPlayer] =
             sortCards(Append(@, newCard), table.currentLevelRank)]
     /\ op' = "assignCardToPlayer"
     /\ UNCHANGED <<levelRank, cards, engineVars, table, historyStack, redoStack, timers,
                    pendingCards>>

returnCardFromPlayer(id, playerPosition) ==
  LET hand == players[playerPosition]
      found == {i \in DOMAIN hand : cardId(hand[i]) = id}
  IN /\ found # {}
     /\ LET idx == MinOf(found)
            key == cardPoolKey(hand[idx].suit, hand[idx].rank)
        IN /\ players' = [players EXCEPT ![playerPosition] = RemoveAt(hand, idx)]
           /\ cardPool' = [cardPool EXCEPT ![key] = Min2(@ + 1)]
     /\ op' = "returnCardFromPlayer"
     /\ UNCHANGED <<levelRank, cards, engineVars, table, historyStack, redoStack, timers,
                    pendingCards>>

clearPlayerHand(position) ==
  /\ cardPool' = poolAfterReturn(cardPool, players[position])
  /\ players' = [players EXCEPT ![position] = <<>>]
  /\ table' = [table EXCEPT !.actionHistory = <<>>]
  /\ op' = "clearPlayerHand"
  /\ UNCHANGED <<levelRank, cards, engineVars, historyStack, redoStack, timers, pendingCards>>

clearAllHands ==
  /\ players' = [pos \in PlayerPosition |-> <<>>]
  /\ cardPool' = buildInitialCardPool(DOMAIN cardPool)
  /\ table' = [table EXCEPT !.actionHistory = <<>>]
  /\ op' = "clearAllHands"
  /\ UNCHANGED <<levelRank, cards, engineVars, historyStack, redoStack, timers, pendingCards>>

cardsPerPlayer == 27

\* the shuffled lists: every order of the two copies of every kind
Shuffled(kinds) ==
  {s \in [1..(2 * Cardinality(kinds)) -> kinds] :
     \A k \in kinds : Cardinality({i \in DOMAIN s : s[i] = k}) = 2}

RECURSIVE dealFrom(_, _, _, _)
dealFrom(cardsToDeal, i, ps, lvl) ==
  IF i > Len(cardsToDeal) THEN ps
  ELSE LET item == cardsToDeal[i]
           pos == PLAYER_ORDER[((i - 1) % 4) + 1]
           deckIndex == globalCount(ps, item) + 1
       IN dealFrom(cardsToDeal, i + 1,
                   [ps EXCEPT ![pos] = Append(@, MakeCard(item, deckIndex, lvl))], lvl)

randomDeal(remaining) ==
  LET count == IF Len(remaining) < cardsPerPlayer * 4 THEN Len(remaining)
               ELSE cardsPerPlayer * 4
      cardsToDeal == SubSeq(remaining, 1, count)
  IN /\ players' =
          sortAllHands(
            dealFrom(cardsToDeal, 1, [pos \in PlayerPosition |-> <<>>],
                     table.currentLevelRank),
            table.currentLevelRank)
     /\ cardPool' = [k \in DOMAIN cardPool |-> 0]
     /\ table' = [table EXCEPT !.actionHistory = <<>>]
     /\ op' = "randomDeal"
     /\ UNCHANGED <<levelRank, cards, engineVars, historyStack, redoStack, timers,
                    pendingCards>>

\* the state playCards leaves: the hands, the pool and the table
playedState(position, cs, playType, isRuleViolation) ==
  [players |-> [players EXCEPT ![position] = WithoutIds(@, IdsOf(cs))],
   cardPool |-> poolAfterReturn(cardPool, cs),
   table |->
     [table EXCEPT
        !.actionHistory =
          Append(@, [playerId |-> position, playedCards |-> cs, playType |-> playType,
                     isRuleViolation |-> isRuleViolation]),
        !.currentPlayer = nextPlayer(position)]]

\* the cards with the given ids leave the hand of the player to move
playCards(ids) ==
  LET position == table.currentPlayer
      cs == WithIds(players[position], ids)
      pattern == identifyPattern(cs, table.currentLevelRank)
      after == playedState(position, cs, pattern.type, ~pattern.isValid)
  IN /\ ids # {}
     /\ players' = after.players
     /\ cardPool' = after.cardPool
     /\ table' = after.table
     /\ op' = "playCards"
     /\ UNCHANGED <<levelRank, cards, engineVars, historyStack, redoStack, timers,
                    pendingCards>>

passAction ==
  /\ table' =
       [table EXCEPT
          !.actionHistory =
            Append(@, [playerId |-> table.currentPlayer, playedCards |-> <<>>,
                       playType |-> "Pass", isRuleViolation |-> FALSE]),
          !.currentPlayer = nextPlayer(table.currentPlayer)]
  /\ op' = "passAction"
  /\ UNCHANGED <<levelRank, cards, engineVars, players, cardPool, historyStack, redoStack,
                 timers, pendingCards>>

saveSnapshot ==
  /\ historyStack' = Append(historyStack, snapshotOf(players, table))
  /\ redoStack' = <<>>
  /\ op' = "saveSnapshot"
  /\ UNCHANGED <<levelRank, cards, engineVars, players, cardPool, table, timers,
                 pendingCards>>

Front(s) == SubSeq(s, 1, Len(s) - 1)

Top(s) == s[Len(s)]

\* a mis-typed restore: the table is left as it is
restoredHandsOnly(snap) ==
  [players |-> sortAllHands(snap.playersState, snap.tableState.currentLevelRank),
   cardPool |-> recalcCardPoolFromHands(snap.playersState),
   table |-> table]

\* the state a snapshot is restored to
restored(snap) ==
  [players |-> sortAllHands(snap.playersState, snap.tableState.currentLevelRank),
   cardPool |-> recalcCardPoolFromHands(snap.playersState),
   table |-> snap.tableState]

undo ==
  /\ op' = "undo"
  /\ IF historyStack = <<>>
       THEN UNCHANGED <<levelRank, players, cardPool, table, historyStack, redoStack>>
       ELSE /\ redoStack' = Append(redoStack, snapshotOf(players, table))
            /\ historyStack' = Front(historyStack)
            /\ players' = restored(Top(historyStack)).players
            /\ cardPool' = restored(Top(historyStack)).cardPool
            /\ table' = restored(Top(historyStack)).table
            /\ levelRank' = table'.currentLevelRank
  /\ UNCHANGED <<cards, engineVars, timers, pendingCards>>

redo ==
  /\ op' = "redo"
  /\ IF redoStack = <<>>
       THEN UNCHANGED <<levelRank, players, cardPool, table, historyStack, redoStack>>
       ELSE /\ historyStack' = Append(historyStack, snapshotOf(players, table))
            /\ redoStack' = Front(redoStack)
            /\ players' = restored(Top(redoStack)).players
            /\ cardPool' = restored(Top(redoStack)).cardPool
            /\ table' = restored(Top(redoStack)).table
            /\ levelRank' = table'.currentLevelRank
  /\ UNCHANGED <<cards, engineVars, timers, pendingCards>>

(***************************************************************************)
(* SpecStore: the setup panel and the store's play, pass, snapshot, undo   *)
(* and redo, on the deck StoreKinds at the levels StoreLevels.             *)
(***************************************************************************)
\* the hands the setup panel is pointed at
SetupPositions == {"SOUTH", "EAST"}

StoreKinds == {Kind("Spades", "7"), Kind("Hearts", "2")}

StoreLevels == {"2", "7"}

StoreInit == InitStore(StoreKinds)

\* one more handler runs
Tick(limit) == steps < limit /\ steps' = steps + 1

NextStore ==
  \/ Tick(MaxSteps) /\ \E rank \in StoreLevels : setLevel(rank)
  \/ Tick(MaxSteps) /\ \E k \in StoreKinds, pos \in SetupPositions :
                          assignCardToPlayer(k.suit, k.rank, pos)
  \/ Tick(MaxSteps) /\ \E pos \in PlayerPosition : \E id \in IdsOf(players[pos]) :
                          returnCardFromPlayer(id, pos)
  \/ Tick(MaxSteps) /\ \E pos \in SetupPositions : clearPlayerHand(pos)
  \/ Tick(MaxSteps) /\ clearAllHands
  \/ Tick(MaxSteps) /\ \E remaining \in Shuffled(StoreKinds) : randomDeal(remaining)
  \/ Tick(MaxSteps) /\ \E ids \in SUBSET IdsOf(players[table.currentPlayer]) :
                          playCards(ids)
  \/ Tick(MaxSteps) /\ passAction
  \/ Tick(MaxSteps) /\ saveSnapshot
  \/ Tick(MaxSteps) /\ undo
  \/ Tick(MaxSteps) /\ redo

SpecStore == StoreInit /\ [][NextStore]_vars

(***************************************************************************)
(* The table view (MainTable).  levelRank and the player to move are read  *)
(* from the store's table when a handler runs; cards holds the selection   *)
(* the play handler last worked on.  A play that breaks a rule is handed   *)
(* to a timer and recorded when the timer runs, with the position and the  *)
(* cards of the moment the play button was pressed; a legal play with a    *)
(* wildcard waits in pendingCards for the popover.  The popover's choice   *)
(* (actingAs) is not read by the engine and is left out of the card.       *)
(***************************************************************************)
\* longest sequence of handlers of the table
MaxTableSteps == 7

MaxOf(S) == CHOOSE x \in S : \A y \in S : x >= y

\* a mis-typed search: the last action, a Pass included
lastValidIndexAnyAction(history) == Len(history)

\* the place in the history of the last action that put cards on the
\* table, 0 when there is none
lastValidIndex(history) ==
  LET found == {i \in DOMAIN history :
                  history[i].playType # "Pass" /\ Len(history[i].playedCards) > 0}
  IN IF found = {} THEN 0 ELSE MaxOf(found)

hasLastPattern(history) == lastValidIndex(history) # 0

lastPattern(history, lvl) ==
  identifyPattern(history[lastValidIndex(history)].playedCards, lvl)

\* saveSnapshot and playCards, one after the other
executePlay(position, cs, isViolation, playType) ==
  LET after == playedState(position, cs, playType, isViolation)
  IN /\ historyStack' = Append(historyStack, snapshotOf(players, table))
     /\ redoStack' = <<>>
     /\ players' = after.players
     /\ cardPool' = after.cardPool
     /\ table' = after.table

handlePlayCards(selectedIds) ==
  LET currentPos == table.currentPlayer
      selected == WithIds(players[currentPos], selectedIds)
      pattern == identifyPattern(selected, levelRank)
      hasWild == \E i \in DOMAIN selected : selected[i].isWildcard
      isViolation ==
        IF ~pattern.isValid \/ pattern.type = "Invalid" THEN TRUE
        ELSE IF hasLastPattern(table.actionHistory)
               THEN ~canBeat(pattern, lastPattern(table.actionHistory, levelRank))
               ELSE FALSE
  IN /\ Len(selected) # 0
     /\ cards' = selected
     /\ op' = "handlePlayCards"
     /\ IF isViolation
          THEN /\ timers' =
                    Append(timers, [position |-> currentPos, cards |-> selected,
                                    playType |-> pattern.type])
               /\ UNCHANGED <<players, cardPool, table, historyStack, redoStack,
                              pendingCards>>
          ELSE IF hasWild
                 THEN /\ pendingCards' = selected
                      /\ UNCHANGED <<players, cardPool, table, historyStack, redoStack,
                                     timers>>
                 ELSE /\ executePlay(currentPos, selected, FALSE, pattern.type)
                      /\ UNCHANGED <<timers, pendingCards>>
     /\ UNCHANGED <<levelRank, engineVars>>

\* the timer of the oldest waiting play runs
timerFires ==
  /\ timers # <<>>
  /\ executePlay(Head(timers).position, Head(timers).cards, TRUE, Head(timers).playType)
  /\ timers' = Tail(timers)
  /\ op' = "executePlay"
  /\ UNCHANGED <<levelRank, cards, engineVars, pendingCards>>

handleWildcardSelect ==
  LET pattern == identifyPattern(pendingCards, levelRank)
      isViolation == ~pattern.isValid \/ pattern.type = "Invalid"
  IN /\ pendingCards # <<>>
     /\ executePlay(table.currentPlayer, pendingCards, isViolation, pattern.type)
     /\ pendingCards' = <<>>
     /\ op' = "handleWildcardSelect"
     /\ UNCHANGED <<levelRank, cards, engineVars, timers>>

handleWildcardCancel ==
  /\ pendingCards # <<>>
  /\ pendingCards' = <<>>
  /\ op' = "handleWildcardCancel"
  /\ UNCHANGED <<levelRank, cards, engineVars, players, cardPool, table, historyStack,
                 redoStack, timers>>

\* saveSnapshot and passAction, one after the other
handlePass ==
  /\ historyStack' = Append(historyStack, snapshotOf(players, table))
  /\ redoStack' = <<>>
  /\ table' =
       [table EXCEPT
          !.actionHistory =
            Append(@, [playerId |-> table.currentPlayer, playedCards |-> <<>>,
                       playType |-> "Pass", isRuleViolation |-> FALSE]),
          !.currentPlayer = nextPlayer(table.currentPlayer)]
  /\ op' = "handlePass"
  /\ UNCHANGED <<levelRank, cards, engineVars, players, cardPool, timers, pendingCards>>

(***************************************************************************)
(* SpecTable: hands dealt from TableKinds at level 2, and plays, passes,   *)
(* undo and redo at the table, up to MaxTableSteps handlers.               *)
(***************************************************************************)
TableKinds == {Kind("Spades", "7"), Kind("Spades", "8"), Kind("Hearts", "2")}

\* the shuffles dealt: SOUTH gets the first and the fifth card, EAST the
\* second and the sixth, NORTH the third, WEST the fourth
TableShuffles ==
  {<<Kind("Spades", "8"), Kind("Hearts", "2"), Kind("Spades", "8"),
     Kind("Spades", "7"), Kind("Spades", "7"), Kind("Hearts", "2")>>,
   <<Kind("Spades", "7"), Kind("Spades", "8"), Kind("Hearts", "2"),
     Kind("Spades", "8"), Kind("Spades", "7"), Kind("Hearts", "2")>>}

\* the deal button of the setup panel is enabled while the pool holds a card
canRandomDeal == \E k \in DOMAIN cardPool : cardPool[k] > 0

InitTable == InitStore(TableKinds)

NextTable ==
  \/ Tick(MaxTableSteps) /\ canRandomDeal
       /\ \E remaining \in TableShuffles : randomDeal(remaining)
  \/ Tick(MaxTableSteps)
       /\ \E ids \in SUBSET IdsOf(players[table.currentPlayer]) : handlePlayCards(ids)
  \/ Tick(MaxTableSteps) /\ timerFires
  \/ Tick(MaxTableSteps) /\ handleWildcardSelect
  \/ Tick(MaxTableSteps) /\ handleWildcardCancel
  \/ Tick(MaxTableSteps) /\ handlePass
  \/ Tick(MaxTableSteps) /\ undo
  \/ Tick(MaxTableSteps) /\ redo

SpecTable == InitTable /\ [][NextTable]_vars

(***************************************************************************)
(* Properties.                                                             *)
(***************************************************************************)
\* the natural value of a rank 2..A, from its place in RANKS
NaturalOf(r) == 1 + (CHOOSE j \in DOMAIN RANKS : RANKS[j] = r)

\* the place of a suit in the order Spades, Hearts, Clubs, Diamonds
SuitPlace(s) == CHOOSE i \in DOMAIN SUITS : SUITS[i] = s

KindsOf(cs) == {Kind(cs[i].suit, cs[i].rank) : i \in DOMAIN cs}

NonWildIdx(cs) == {i \in DOMAIN cs : ~cs[i].isWildcard}

SameCards(a, b) ==
  /\ Len(a) = Len(b)
  /\ \A i \in DOMAIN a :
       Cardinality({j \in DOMAIN a : a[j] = a[i]}) = Cardinality({j \in DOMAIN b : b[j] = a[i]})

\* C1: classifying the same cards in another order gives the same
\* PatternResult (type, primaryValue, length, isValid).
C1_PermutationInvariant == [][op' = "shuffle" => result' = result]_vars

\* C2: getCardValue is in 2..17; Small Joker 16, Big Joker 17, a non-joker
\* card of the level rank 15 in any suit, every other card its natural value
\* 2..14.
C2_CardValue ==
  op = "value" =>
    LET c == cards[Len(cards)]
    IN  /\ value \in 2..17
        /\ c.rank = "Small" => value = 16
        /\ c.rank = "Big" => value = 17
        /\ (c.suit # "Joker" /\ c.rank = levelRank) => value = 15
        /\ (c.suit # "Joker" /\ c.rank # levelRank) =>
             (value = NaturalOf(c.rank) /\ value \in 2..14)

C2_Witness ==
  /\ op = "value"
  /\ levelRank = "J"
  /\ cards[Len(cards)].suit = "Hearts"
  /\ cards[Len(cards)].rank = "J"
  /\ value = 15

\* what a call of sortCards leaves: the cards of the input, ordered by the
\* keys (wildcard first, value descending, suit place ascending); with
\* anyGroup the suit order is asked of every two cards of one value, without
\* it only of two wildcards or two other cards
SortedState(anyGroup) ==
  op = "sort" =>
    /\ SameCards(cards, sorted)
    /\ \A i, j \in DOMAIN sorted :
         i < j =>
           LET a == sorted[i]
               b == sorted[j]
               va == getCardValue(a, levelRank)
               vb == getCardValue(b, levelRank)
           IN  /\ b.isWildcard => a.isWildcard
               /\ a.isWildcard = b.isWildcard => va >= vb
               /\ ((anyGroup \/ a.isWildcard = b.isWildcard) /\ va = vb) =>
                    (a.suit = b.suit \/ SuitPlace(a.suit) < SuitPlace(b.suit))

\* C3 as stated: sortCards returns the cards of its input, every wildcard
\* before every other card, the value never increasing within the wildcards
\* and within the others, and any two cards of one value in the order
\* Spades, Hearts, Clubs, Diamonds; the input list is left as it was.
C3_SortCardsAnyTie == [](SortedState(TRUE)) /\ [][op' = "sort" => cards' = cards]_vars

\* C3: sortCards returns the cards of its input (the same multiset), every
\* wildcard before every other card; within the wildcards and within the
\* others the value never increases from left to right, and there cards of
\* one value are in the order Spades, Hearts, Clubs, Diamonds; the input
\* list is left as it was.
C3_SortCards == [](SortedState(FALSE)) /\ [][op' = "sort" => cards' = cards]_vars

\* at level 2 the list Clubs-8, ..., sorted to Hearts-2 (wildcard), Spades-2
\* (level card of the same value 15), Hearts-8, Clubs-8
C3_Witness ==
  /\ op = "sort"
  /\ levelRank = "2"
  /\ Len(cards) = 4
  /\ ~cards[1].isWildcard
  /\ sorted[1].isWildcard
  /\ sorted[2].rank = "2" /\ sorted[2].suit = "Spades"
  /\ sorted[3].rank = "8" /\ sorted[3].suit = "Hearts"
  /\ sorted[4].rank = "8" /\ sorted[4].suit = "Clubs"
  /\ cards[1] = sorted[4]

\* C4: sorting a sorted list again returns the same list.
C4_SortIdempotent == op = "resort" => sorted = cards

\* a sorted list with a wildcard, and two copies of a kind that stay in
\* their input order, is sorted again
C4_Witness ==
  /\ op = "resort"
  /\ Len(cards) = 4
  /\ cards[1].isWildcard
  /\ cards[3].rank = cards[4].rank /\ cards[3].suit = cards[4].suit
  /\ cards[3].id = 2 /\ cards[4].id = 1
  /\ sorted = cards

IsKingSet(cs) == Len(cs) = 4 /\ CountRank(cs, "Big") = 2 /\ CountRank(cs, "Small") = 2

\* C5: 2 Big Jokers with 2 Small Jokers, and nothing else, classify as
\* KingBomb with primaryValue 100 and length 4, at every level rank; no other
\* card set is a KingBomb.
C5_KingBomb ==
  op = "identify" =>
    IF IsKingSet(cards)
      THEN result = [type |-> "KingBomb", primaryValue |-> 100, length |-> 4, isValid |-> TRUE]
      ELSE result.type # "KingBomb"

C5_Witness == op = "identify" /\ levelRank = "A" /\ result.type = "KingBomb"

BombCase(cs, lvl) ==
  /\ NonWildIdx(cs) # {}
  /\ \A i \in NonWildIdx(cs) : cs[i].suit # "Joker"
  /\ \A i, j \in NonWildIdx(cs) : getCardValue(cs[i], lvl) = getCardValue(cs[j], lvl)

\* C6: 4 or more cards that are not the KingBomb are a Bomb of value v and
\* length n exactly when there is a non-wildcard card, no non-wildcard card
\* is a Joker and all non-wildcard cards have the value v.
C6_Bomb ==
  (op = "identify" /\ Len(cards) >= 4 /\ ~IsKingSet(cards)) =>
    IF BombCase(cards, levelRank)
      THEN result = [type |-> "Bomb",
                     primaryValue |-> getCardValue(cards[MinOf(NonWildIdx(cards))], levelRank),
                     length |-> Len(cards), isValid |-> TRUE]
      ELSE result.type # "Bomb"

\* four 8s at level rank 2
C6_Witness ==
  /\ op = "identify"
  /\ levelRank = "2"
  /\ Len(cards) = 4
  /\ \A i \in DOMAIN cards : cards[i].rank = "8"
  /\ result = [type |-> "Bomb", primaryValue |-> 8, length |-> 4, isValid |-> TRUE]

PairCaseA(cs, lvl) ==
  /\ getCardValue(cs[1], lvl) = getCardValue(cs[2], lvl)
  /\ cs[1].suit # "Joker"
  /\ cs[2].suit # "Joker"

PairCaseB(cs) ==
  \E i \in {1, 2} : cs[i].isWildcard /\ ~cs[3 - i].isWildcard /\ cs[3 - i].suit # "Joker"

\* C7: two cards are a valid Pair exactly when (a) they have the same value
\* and neither is a Joker, or (b) one is a wildcard and the other a
\* non-joker non-wildcard card; primaryValue is the shared value or the
\* non-wildcard card's value; every other 2-card set is Invalid.
C7_Pair ==
  (op = "identify" /\ Len(cards) = 2) =>
    IF PairCaseA(cards, levelRank) \/ PairCaseB(cards)
      THEN result = [type |-> "Pair",
                     primaryValue |->
                       IF PairCaseA(cards, levelRank)
                         THEN getCardValue(cards[1], levelRank)
                         ELSE getCardValue(cards[MinOf(NonWildIdx(cards))], levelRank),
                     length |-> 2, isValid |-> TRUE]
      ELSE result.type = "Invalid" /\ ~result.isValid

SevenNine(cs) == Len(cs) = 2 /\ {cs[1].rank, cs[2].rank} = {"7", "9"}

\* C8 as stated: a rank-7 card with a rank-9 card is Invalid at every level
\* rank.
C8_SevenNineInvalid ==
  (op = "identify" /\ SevenNine(cards)) => result.type = "Invalid"

\* C8: a rank-7 card with a rank-9 card is Invalid at every level rank,
\* unless one of the two is the wildcard (Hearts 7 at level 7, Hearts 9 at
\* level 9): then it is a Pair of the other card's value.
C8_SevenNineUnlessWild ==
  (op = "identify" /\ SevenNine(cards)) =>
    IF NonWildIdx(cards) = {1, 2}
      THEN result.type = "Invalid" /\ ~result.isValid
      ELSE result = [type |-> "Pair",
                     primaryValue |-> getCardValue(cards[MinOf(NonWildIdx(cards))], levelRank),
                     length |-> 2, isValid |-> TRUE]

C8_Witness ==
  /\ op = "identify"
  /\ SevenNine(cards)
  /\ levelRank = "9"
  /\ cards[1].suit = "Spades" /\ cards[1].rank = "9"
  /\ cards[2].suit = "Hearts" /\ cards[2].rank = "7"
  /\ result.type = "Invalid"

AceLowHand(cs) ==
  /\ Len(cs) = 5
  /\ KindsOf(cs) = {Kind("Spades", "A"), Kind("Hearts", "2"), Kind("Clubs", "3"),
                    Kind("Diamonds", "4"), Kind("Spades", "5")}

\* C9 as stated: at every level rank other than 2, 3, 4, 5 the cards
\* Spades-A, Hearts-2, Clubs-3, Diamonds-4, Spades-5 are a Straight of
\* primaryValue 5 and length 5.
C9_AceLowStraight ==
  (op = "identify" /\ AceLowHand(cards) /\ levelRank \notin {"2", "3", "4", "5"}) =>
    result = [type |-> "Straight", primaryValue |-> 5, length |-> 5, isValid |-> TRUE]

\* C9: at every level rank 6..K the cards Spades-A, Hearts-2, Clubs-3,
\* Diamonds-4, Spades-5 are a Straight of primaryValue 5 and length 5; at
\* level rank A (where Spades-A is a level card) they are Invalid.
C9_AceLowStraightBelowA ==
  (op = "identify" /\ AceLowHand(cards) /\ levelRank \notin {"2", "3", "4", "5"}) =>
    IF levelRank = "A"
      THEN result.type = "Invalid" /\ ~result.isValid
      ELSE result = [type |-> "Straight", primaryValue |-> 5, length |-> 5, isValid |-> TRUE]

C9_Witness ==
  /\ op = "identify"
  /\ AceLowHand(cards)
  /\ levelRank = "K"
  /\ result = [type |-> "Straight", primaryValue |-> 5, length |-> 5, isValid |-> TRUE]

\* five consecutive natural values (A as 1 only in A2345), no value twice,
\* no card above 14, the wildcards standing for the missing values
RunCase(cs, lvl) ==
  /\ Len(cs) = 5
  /\ \A i \in NonWildIdx(cs) : getCardValue(cs[i], lvl) <= 14
  /\ \A i, j \in NonWildIdx(cs) : i # j => cs[i].rank # cs[j].rank
  /\ \E lo \in 1..10 :
       \A i \in NonWildIdx(cs) :
         LET v == NaturalOf(cs[i].rank)
         IN  (IF lo = 1 /\ v = 14 THEN 1 ELSE v) \in lo..(lo + 4)

OneSuit(cs) == \A i, j \in NonWildIdx(cs) : cs[i].suit = cs[j].suit

\* C10: five cards that meet the Straight conditions and whose non-wildcard
\* cards share one suit classify as StraightFlush, not as Straight.
C10_StraightFlush ==
  (op = "identify" /\ RunCase(cards, levelRank) /\ OneSuit(cards)) =>
    result.type = "StraightFlush"

\* C11: identifyPattern returns a result for every list of n >= 1 cards,
\* and when the cards form no legal combination the result is type Invalid,
\* isValid false, primaryValue 0 and length n, the number of cards passed in.
C11_InvalidResult ==
  (op = "identify" /\ Len(cards) >= 1) =>
    /\ result.type \in PlayTypeName \ {"Pass"}
    /\ result.isValid = (result.type # "Invalid")
    /\ result.type = "Invalid" =>
         result = [type |-> "Invalid", primaryValue |-> 0, length |-> Len(cards),
                   isValid |-> FALSE]

\* C12: canBeat returns a boolean, and FALSE whenever the candidate or the
\* incumbent has isValid false, whatever their types, lengths and values.
C12_InvalidNeverBeats ==
  op = "beat" =>
    /\ beats \in BOOLEAN
    /\ (~newPattern.isValid \/ ~oldPattern.isValid) => ~beats

\* an invalid KingBomb record does not beat a valid Pass
C12_Witness ==
  /\ op = "beat"
  /\ newPattern.type = "KingBomb" /\ ~newPattern.isValid
  /\ oldPattern.type = "Pass" /\ oldPattern.isValid
  /\ ~beats

\* C13: against a valid incumbent of type Pass every valid candidate wins,
\* whatever its type, length and primaryValue.
C13_PassIsOpen ==
  (op = "beat" /\ oldPattern.type = "Pass" /\ oldPattern.isValid /\ newPattern.isValid)
    => beats

C13_Witness ==
  /\ op = "beat"
  /\ oldPattern.type = "Pass" /\ oldPattern.isValid
  /\ newPattern = [type |-> "Single", primaryValue |-> 10, length |-> 1, isValid |-> TRUE]
  /\ beats

\* the ranks that the table of C14 names: it is silent on a Bomb of fewer
\* than 4 cards
RankNamed(p) == p.type = "Bomb" => p.length >= 4

StatedRank(p) ==
  CASE p.type = "KingBomb" -> 7
    [] p.type = "StraightFlush" -> 3
    [] p.type = "Bomb" /\ p.length >= 8 -> 6
    [] p.type = "Bomb" /\ p.length = 7 -> 5
    [] p.type = "Bomb" /\ p.length = 6 -> 4
    [] p.type = "Bomb" /\ p.length = 5 -> 2
    [] p.type = "Bomb" /\ p.length = 4 -> 1
    [] OTHER -> 0

BombClass(p) == p.type \in {"Bomb", "StraightFlush", "KingBomb"}

\* C15: of two valid results of which exactly one is a Bomb, StraightFlush
\* or KingBomb, and with an incumbent that is not Pass, the bomb wins as the
\* candidate and the other loses as the candidate.
C15_BombBeatsPlain ==
  (/\ op = "beat"
   /\ newPattern.isValid /\ oldPattern.isValid
   /\ oldPattern.type # "Pass"
   /\ BombClass(newPattern) # BombClass(oldPattern)) =>
    beats = BombClass(newPattern)

\* a 4-card Bomb of value 10 beats a Pair of value 14
C15_Witness ==
  /\ op = "beat"
  /\ newPattern = [type |-> "Bomb", primaryValue |-> 10, length |-> 4, isValid |-> TRUE]
  /\ oldPattern = [type |-> "Pair", primaryValue |-> 14, length |-> 2, isValid |-> TRUE]
  /\ beats

Plain(p) == p.isValid /\ ~BombClass(p) /\ p.type # "Pass"

\* C16: of two valid results that are neither bombs nor Pass the candidate
\* wins exactly when the types are equal, the lengths are equal and its
\* primaryValue is higher; exchanging the arguments of a won comparison gives
\* FALSE.
C16_PlainOrder ==
  /\ []((op = "beat" /\ Plain(newPattern) /\ Plain(oldPattern)) =>
          beats = (/\ newPattern.type = oldPattern.type
                   /\ newPattern.length = oldPattern.length
                   /\ newPattern.primaryValue > oldPattern.primaryValue))
  /\ [][(op = "beat" /\ op' = "beat" /\ Plain(newPattern) /\ Plain(oldPattern) /\ beats)
          => ~beats']_vars

\* a 5-card Straight of value 14 against a 6-card Straight of value 10
C16_Witness ==
  /\ op = "beat"
  /\ newPattern = [type |-> "Straight", primaryValue |-> 14, length |-> 5, isValid |-> TRUE]
  /\ oldPattern = [type |-> "Straight", primaryValue |-> 10, length |-> 6, isValid |-> TRUE]
  /\ ~beats

TheKingBomb == [type |-> "KingBomb", primaryValue |-> 100, length |-> 4, isValid |-> TRUE]

\* a valid result; the only result of type KingBomb is TheKingBomb
ValidResult(p) == p.isValid /\ (p.type = "KingBomb" => p = TheKingBomb)

\* C17: the KingBomb (primaryValue 100, length 4) beats every valid result
\* that is not a KingBomb, and no valid result beats the KingBomb.
C17_KingBombStrongest ==
  op = "beat" =>
    /\ (newPattern = TheKingBomb /\ ValidResult(oldPattern) /\ oldPattern.type # "KingBomb")
         => beats
    /\ (oldPattern = TheKingBomb /\ ValidResult(newPattern)) => ~beats

\* the KingBomb beats a 9-card Bomb
C17_Witness ==
  /\ op = "beat"
  /\ newPattern = TheKingBomb
  /\ oldPattern = [type |-> "Bomb", primaryValue |-> 14, length |-> 9, isValid |-> TRUE]
  /\ beats

\* the 52 identities of the 4 suits and 13 ranks
Identities == {Kind(SUITS[i], RANKS[j]) : i \in DOMAIN SUITS, j \in DOMAIN RANKS}

\* the identities a suggestion may name: not the wildcard's own, and not
\* that of a non-wildcard card of the list
Free(cs, lvl) ==
  {k \in Identities :
     /\ k # Kind("Hearts", lvl)
     /\ \A i \in NonWildIdx(cs) : Kind(cs[i].suit, cs[i].rank) # k}

\* the list with every wildcard replaced by a card of suit and rank k
Substituted(cs, k) ==
  [i \in DOMAIN cs |->
     IF cs[i].isWildcard
       THEN [suit |-> k.suit, rank |-> k.rank, id |-> cs[i].id, isWildcard |-> FALSE]
       ELSE cs[i]]

Legal(cs, lvl) == {k \in Free(cs, lvl) : identifyPattern(Substituted(cs, k), lvl).isValid}

OptionSet == {options[i] : i \in DOMAIN options}

\* C18: for a list with at least one wildcard enumerateWildcardOptions
\* returns exactly the free identities for which the list, with every
\* wildcard replaced by a card of that suit and rank, classifies as valid.
C18_LegalSubstitutions ==
  (op = "enumerate" /\ NonWildIdx(cards) # DOMAIN cards) =>
    OptionSet = Legal(cards, levelRank)

\* C19: the result of enumerateWildcardOptions is a list of pairwise
\* distinct identities of the 52, none the wildcard's own (Hearts of the
\* level rank) and none that of a non-wildcard card of the list; it is empty
\* when the list has no wildcard or no legal substitution exists.
C19_OptionList ==
  op = "enumerate" =>
    /\ \A i, j \in DOMAIN options : i # j => options[i] # options[j]
    /\ OptionSet \subseteq Free(cards, levelRank)
    /\ NonWildIdx(cards) = DOMAIN cards => options = <<>>
    /\ Legal(cards, levelRank) = {} => options = <<>>

\* a card that is not a wildcard has a value above 14: a level card or a
\* Joker
SomeAbove14(cs, lvl) == \E i \in NonWildIdx(cs) : getCardValue(cs[i], lvl) > 14

\* C20: a card list with a non-wildcard card of value above 14 (a level card
\* that is not the wildcard, or a Joker) is never a Straight, StraightFlush,
\* Plate or Tube; it is a Single, Pair, Triple, TripleWithPair, Bomb or
\* KingBomb or it is Invalid, and as a Pair, Triple or Bomb it has value 15.
C20_LevelCardsOutOfRuns ==
  (op = "identify" /\ SomeAbove14(cards, levelRank)) =>
    /\ result.type \notin {"Straight", "StraightFlush", "Plate", "Tube"}
    /\ result.type \in {"Single", "Pair", "Triple", "TripleWithPair", "Bomb",
                        "KingBomb", "Invalid"}
    /\ result.type \in {"Pair", "Triple", "Bomb"} => result.primaryValue = 15

\* at level 8 the cards 7, 8, 9, 10, J of Spades: the 8 is a level card and
\* the five cards are no Straight
C20_Witness ==
  /\ op = "identify"
  /\ levelRank = "8"
  /\ Len(cards) = 5
  /\ {cards[i].rank : i \in DOMAIN cards} = {"7", "8", "9", "10", "J"}
  /\ \A i \in DOMAIN cards : cards[i].suit = "Spades"
  /\ result.type = "Invalid"

\* the run of n values from lo takes every non-wildcard card of cs: no card
\* above 14, no rank twice, A counted as 1 only in the run that starts at A
RunFits(cs, lvl, lo) ==
  /\ lo \in 1..(15 - Len(cs))
  /\ \A i \in NonWildIdx(cs) : getCardValue(cs[i], lvl) <= 14
  /\ \A i, j \in NonWildIdx(cs) : i # j => cs[i].rank # cs[j].rank
  /\ \A i \in NonWildIdx(cs) :
       LET v == NaturalOf(cs[i].rank)
       IN  (IF lo = 1 /\ v = 14 THEN 1 ELSE v) \in lo..(lo + Len(cs) - 1)

Windows(cs, lvl) == {lo \in 1..14 : RunFits(cs, lvl, lo)}

RanksOf(cs) == {cs[i].rank : i \in DOMAIN cs}

\* C21: a Straight has 5 cards or 7 and more, and its primaryValue is the
\* highest natural value of a run the cards complete, A counting as 1 only
\* in a run that starts at A (A2345 gives 5, A234567 gives 7, 10JQKA gives
\* 14); J, Q, K, A, 2 is Invalid.
C21_StraightTop ==
  op = "identify" =>
    /\ result.type = "Straight" =>
         /\ Len(cards) = 5 \/ Len(cards) >= 7
         /\ result.length = Len(cards)
         /\ \E lo \in Windows(cards, levelRank) :
              result.primaryValue = lo + Len(cards) - 1
    /\ (Len(cards) = 5 /\ RanksOf(cards) = {"J", "Q", "K", "A", "2"}
          /\ NonWildIdx(cards) = DOMAIN cards) => result.type = "Invalid"

\* C22: when the wildcards of 5 cards can complete more than one window of
\* consecutive values, the Straight has the window with the lowest start:
\* its primaryValue is the least over the windows that fit.
C22_LowestWindow ==
  (op = "identify" /\ Len(cards) = 5 /\ result.type = "Straight") =>
    /\ Windows(cards, levelRank) # {}
    /\ result.primaryValue = MinOf(Windows(cards, levelRank)) + 4
    /\ result.length = 5 /\ result.isValid

\* at level 9 the wildcard with 3, 4, 5, 6: the windows from 2 and from 3
\* fit, and the Straight has primaryValue 6
C22_Witness ==
  /\ op = "identify"
  /\ levelRank = "9"
  /\ Len(cards) = 5
  /\ Cardinality(NonWildIdx(cards)) = 4
  /\ {cards[i].rank : i \in NonWildIdx(cards)} = {"3", "4", "5", "6"}
  /\ Windows(cards, levelRank) = {2, 3}
  /\ result = [type |-> "Straight", primaryValue |-> 6, length |-> 5, isValid |-> TRUE]

ValuesOf(cs, lvl) == {getCardValue(cs[i], lvl) : i \in NonWildIdx(cs)}

CountValue(cs, lvl, v) ==
  Cardinality({i \in NonWildIdx(cs) : getCardValue(cs[i], lvl) = v})

\* the values that can be the three-card group: there is no Joker, the
\* non-wildcard cards have exactly two values, at most 3 cards of this one
\* and at most 2 of the other, and the wildcards fill both groups exactly
TripleValues(cs, lvl) ==
  {v \in ValuesOf(cs, lvl) :
     /\ ~SomeJoker(cs)
     /\ Cardinality(ValuesOf(cs, lvl)) = 2
     /\ \E u \in ValuesOf(cs, lvl) \ {v} :
          /\ CountValue(cs, lvl, v) <= 3
          /\ CountValue(cs, lvl, u) <= 2
          /\ (3 - CountValue(cs, lvl, v)) + (2 - CountValue(cs, lvl, u))
               = Len(cs) - Cardinality(NonWildIdx(cs))}

\* C23: 5 cards that are neither a Bomb nor a Straight are a TripleWithPair
\* exactly when they have no Joker and their non-wildcard cards have two
\* values that split into a group of at most 3 and a group of at most 2 which
\* the wildcards fill exactly; primaryValue is the value of the three-card
\* group; with a third value left over, or four cards of one value, the
\* cards are Invalid.
C23_TripleWithPair ==
  (op \in {"identify", "shuffle"} /\ Len(cards) = 5 /\ result.type \notin {"Bomb", "Straight"}) =>
    IF TripleValues(cards, levelRank) # {}
      THEN /\ result.type = "TripleWithPair"
           /\ result.primaryValue \in TripleValues(cards, levelRank)
           /\ result.length = 5
           /\ result.isValid
      ELSE result.type = "Invalid" /\ ~result.isValid

\* at level 2 two 7s followed by three 8s: the three-card group is above the
\* pair and comes last in the list
C23_Witness ==
  /\ op = "identify"
  /\ levelRank = "2"
  /\ Len(cards) = 5
  /\ cards[1].rank = "7" /\ cards[2].rank = "7"
  /\ \A i \in 3..5 : cards[i].rank = "8"
  /\ result = [type |-> "TripleWithPair", primaryValue |-> 8, length |-> 5, isValid |-> TRUE]

\* the non-wildcard cards of cs fit groupCount consecutive values from v,
\* at most groupSize cards on each, none above 14 (so no Joker and no level
\* card); with 6 cards the wildcards then fill every group exactly
GroupsFit(cs, lvl, v, groupCount, groupSize) ==
  /\ v >= 2
  /\ v + groupCount - 1 <= 14
  /\ \A i \in NonWildIdx(cs) : getCardValue(cs[i], lvl) \in v..(v + groupCount - 1)
  /\ \A u \in v..(v + groupCount - 1) : CountValue(cs, lvl, u) <= groupSize

PlateTops(cs, lvl) == {v + 1 : v \in {u \in 2..14 : GroupsFit(cs, lvl, u, 2, 3)}}

TubeTops(cs, lvl) == {v + 2 : v \in {u \in 2..14 : GroupsFit(cs, lvl, u, 3, 2)}}

\* C24: 6 cards that are not a Bomb are a Plate exactly when the
\* non-wildcard cards fit two consecutive values v, v+1 with at most 3 cards
\* each, the wildcards filling both to 3, with primaryValue v+1; otherwise a
\* Tube exactly when they fit three consecutive values with at most 2 cards
\* each, with primaryValue the highest of the three; otherwise Invalid.
\* Plate goes before Tube, and A is never low.
C24_PlateTube ==
  (op = "identify" /\ Len(cards) = 6 /\ result.type # "Bomb") =>
    IF PlateTops(cards, levelRank) # {}
      THEN /\ result.type = "Plate"
           /\ result.primaryValue \in PlateTops(cards, levelRank)
           /\ result.length = 6 /\ result.isValid
    ELSE IF TubeTops(cards, levelRank) # {}
      THEN /\ result.type = "Tube"
           /\ result.primaryValue \in TubeTops(cards, levelRank)
           /\ result.length = 6 /\ result.isValid
    ELSE result.type = "Invalid" /\ ~result.isValid

\* at level K two 7s, two 8s and the two wildcards: a Plate of value 8,
\* though the cards also fit a Tube
C24_Witness ==
  /\ op = "identify"
  /\ levelRank = "K"
  /\ Len(cards) = 6
  /\ CountValue(cards, levelRank, 7) = 2
  /\ CountValue(cards, levelRank, 8) = 2
  /\ Cardinality(NonWildIdx(cards)) = 4
  /\ TubeTops(cards, levelRank) # {}
  /\ result = [type |-> "Plate", primaryValue |-> 8, length |-> 6, isValid |-> TRUE]

\* C27: on valid results that are not Pass canBeat is a strict partial
\* order: no result beats itself, two results never beat each other, and if
\* a beats b and b beats c then a beats c.
C27_StrictOrder ==
  /\ []((op = "beat" /\ newPattern = oldPattern) => ~beats)
  /\ [][(op = "beat" /\ op' = "beat" /\ beats) => ~beats']_vars
  /\ []((op = "chain" /\ beats /\ chain.oldBeats) => chain.newBeats)

\* a 6-card Bomb beats a StraightFlush, the StraightFlush beats a 5-card
\* Bomb, and the 6-card Bomb beats the 5-card Bomb
C27_Witness ==
  /\ op = "chain"
  /\ newPattern.type = "Bomb" /\ newPattern.length = 6
  /\ oldPattern.type = "StraightFlush"
  /\ chain.third.type = "Bomb" /\ chain.third.length = 5
  /\ beats /\ chain.oldBeats /\ chain.newBeats

\* the cards held: position and place in the hand
Held == UNION {{<<pos, i>> : i \in DOMAIN players[pos]} : pos \in PlayerPosition}

HeldCard(h) == players[h[1]][h[2]]

\* C25: in the store every card held in any of the four hands is flagged
\* isWildcard exactly when its suit is Hearts and its rank is the table's
\* current level rank, whatever setup, play, pass, snapshot, undo and redo
\* actions came before.
C25_WildcardFlags ==
  \A h \in Held :
    HeldCard(h).isWildcard
      <=> (HeldCard(h).suit = "Hearts" /\ HeldCard(h).rank = table.currentLevelRank)

\* an undo brought back a hand that holds the wildcard of level 2 after the
\* level had been set to 7
C25_Witness ==
  /\ op = "undo"
  /\ table.currentLevelRank = "2"
  /\ redoStack # <<>>
  /\ Top(redoStack).tableState.currentLevelRank = "7"
  /\ \E h \in Held : HeldCard(h).isWildcard

\* C26: no two cards held across the four hands have the same id.
C26_UniqueIds ==
  \A g, h \in Held : g # h => cardId(HeldCard(g)) # cardId(HeldCard(h))

\* the copies of a kind in the four hands and in the pool
Balance(k) == cardPool[k] + globalCount(players, k)

\* C28: for every kind of the deck the pool holds 0, 1 or 2 copies, and the
\* pool and the four hands together hold exactly 2.
C28_TwoDeckBalance ==
  \A k \in DOMAIN cardPool : cardPool[k] \in 0..2 /\ Balance(k) = 2

\* a play took both copies of a kind out of a hand and an undo brought them
\* back: the pool of that kind is empty again
C28_Witness ==
  /\ op = "undo"
  /\ redoStack # <<>>
  /\ \E k \in DOMAIN cardPool :
       /\ cardPool[k] = 0
       /\ Copies(players["SOUTH"], k) = 2
       /\ Copies(Top(redoStack).playersState["SOUTH"], k) = 0

\* a handler of the table recorded a play or a pass
Recorded ==
  /\ op' \in {"handlePlayCards", "executePlay", "handleWildcardSelect", "handlePass"}
  /\ table'.actionHistory # table.actionHistory

\* the hands, the level rank, the player to move and the history are those
\* of the snapshot
Restores(snap) ==
  /\ players' = snap.playersState
  /\ table'.currentLevelRank = snap.tableState.currentLevelRank
  /\ table'.currentPlayer = snap.tableState.currentPlayer
  /\ table'.actionHistory = snap.tableState.actionHistory

\* C29: a play or pass first saves the state before it and empties the redo
\* stack; an undo restores the four hands (same cards, same order), the
\* level rank, the player to move and the history saved last, and keeps the
\* state it left for redo; a redo restores that state; an undo with an
\* empty history stack and a redo with an empty redo stack change nothing.
C29_UndoRedo ==
  /\ [][Recorded =>
          /\ historyStack' = Append(historyStack, snapshotOf(players, table))
          /\ redoStack' = <<>>]_vars
  /\ [][(op' = "undo" /\ historyStack # <<>>) =>
          /\ Restores(Top(historyStack))
          /\ historyStack' = Front(historyStack)
          /\ redoStack' = Append(redoStack, snapshotOf(players, table))]_vars
  /\ [][(op' = "redo" /\ redoStack # <<>>) =>
          /\ Restores(Top(redoStack))
          /\ redoStack' = Front(redoStack)
          /\ historyStack' = Append(historyStack, snapshotOf(players, table))]_vars
  /\ [][((op' = "undo" /\ historyStack = <<>>) \/ (op' = "redo" /\ redoStack = <<>>)) =>
          UNCHANGED <<players, cardPool, table, historyStack, redoStack>>]_vars

\* SOUTH played a pair, the play was undone and redone: the hand is empty
\* again, the pair is back in the history and the undo stack holds the hand
\* with the pair
C29_Witness ==
  /\ op = "redo"
  /\ Len(table.actionHistory) = 1
  /\ table.actionHistory[1].playerId = "SOUTH"
  /\ table.actionHistory[1].playType = "Pair"
  /\ players["SOUTH"] = <<>>
  /\ table.currentPlayer = "EAST"
  /\ historyStack # <<>>
  /\ Len(Top(historyStack).playersState["SOUTH"]) = 2
  /\ Top(historyStack).tableState.actionHistory = <<>>
  /\ redoStack = <<>>

\* the place of the most recent action that is not a Pass, 0 when none
LastPlay(history) ==
  LET found == {i \in DOMAIN history : history[i].playType # "Pass"}
  IN IF found = {} THEN 0 ELSE CHOOSE i \in found : \A j \in found : j <= i

\* the selection is Invalid, or fails against the last play of the history
BreaksRule(selection, history, lvl) ==
  \/ identifyPattern(selection, lvl).type = "Invalid"
  \/ /\ LastPlay(history) # 0
     /\ ~canBeat(identifyPattern(selection, lvl),
                 identifyPattern(history[LastPlay(history)].playedCards, lvl))

Successor(p) ==
  CASE p = "SOUTH" -> "EAST" [] p = "EAST" -> "NORTH" [] p = "NORTH" -> "WEST"
    [] p = "WEST" -> "SOUTH"

Newest(history) == history[Len(history)]

\* C30: when the player to move plays a non-empty selection, the play is
\* recorded as a rule violation exactly when the selection is Invalid or
\* fails canBeat against the most recent action of the history that is not
\* a Pass, however many Passes follow it (no check when there is none): a
\* violating play is handed to the timer and recorded with the flag set, any
\* other play is recorded, at once or after the wildcard popover, with the
\* flag clear.  Every play or pass recorded for position p is appended to
\* the history and makes p's successor the player to move.
C30_ViolationAndTurn ==
  /\ [][op' = "handlePlayCards" =>
          IF BreaksRule(cards', table.actionHistory, levelRank)
            THEN /\ timers' = Append(timers, [position |-> table.currentPlayer,
                                              cards |-> cards',
                                              playType |-> identifyPattern(cards', levelRank).type])
                 /\ table' = table
            ELSE \/ pendingCards' = cards' /\ table' = table /\ timers' = timers
                 \/ /\ table'.actionHistory =
                          Append(table.actionHistory,
                                 [playerId |-> table.currentPlayer, playedCards |-> cards',
                                  playType |-> identifyPattern(cards', levelRank).type,
                                  isRuleViolation |-> FALSE])
                    /\ timers' = timers]_vars
  /\ [][op' = "executePlay" =>
          /\ timers # <<>>
          /\ table'.actionHistory =
               Append(table.actionHistory,
                      [playerId |-> Head(timers).position, playedCards |-> Head(timers).cards,
                       playType |-> Head(timers).playType, isRuleViolation |-> TRUE])]_vars
  /\ [][op' = "handleWildcardSelect" =>
          /\ table'.actionHistory # table.actionHistory
          /\ Newest(table'.actionHistory).playedCards = pendingCards
          /\ ~Newest(table'.actionHistory).isRuleViolation]_vars
  /\ [][op' = "handlePass" =>
          table'.actionHistory =
            Append(table.actionHistory,
                   [playerId |-> table.currentPlayer, playedCards |-> <<>>,
                    playType |-> "Pass", isRuleViolation |-> FALSE])]_vars
  /\ [][Recorded =>
          /\ Front(table'.actionHistory) = table.actionHistory
          /\ table'.currentPlayer = Successor(Newest(table'.actionHistory).playerId)]_vars

\* SOUTH led a single 8, EAST and NORTH passed, and WEST's single 7 was
\* recorded as a violation: the two Passes did not reopen the table
C30_Witness ==
  /\ op = "executePlay"
  /\ Len(table.actionHistory) = 4
  /\ table.actionHistory[1].playerId = "SOUTH"
  /\ table.actionHistory[1].playType = "Single"
  /\ ~table.actionHistory[1].isRuleViolation
  /\ table.actionHistory[2].playType = "Pass"
  /\ table.actionHistory[3].playType = "Pass"
  /\ table.actionHistory[4].playerId = "WEST"
  /\ table.actionHistory[4].playType = "Single"
  /\ table.actionHistory[4].isRuleViolation
  /\ table.currentPlayer = "SOUTH"

=============================================================================
